---- MODULE Spec2Model ----
(***************************************************************************)
(* A model of the atlas ingestion pipeline:                                *)
(*   - the paginated extraction worker (scraps.py, ETLWorker) with its     *)
(*     bounded queue, its one-by-one writer thread and its stop() call;    *)
(*   - the rate limiter and the detail enrichment worker                   *)
(*     (scraps_detalhes.py, RateLimiter and DetalhesWorker).               *)
(* Each thread of the program is a program counter; every action is one    *)
(* block of the code between two points where another thread can be seen   *)
(* to interleave.                                                          *)
(***************************************************************************)
EXTENDS Integers, Sequences, FiniteSets, TLC

(***************************************************************************)
(* Bounds of the model.                                                    *)
(***************************************************************************)
\* The API serves a continuation marker only on pages below MaxPages.
MaxPages == 3
\* A page answered with a non-200 success status is requested again by the
\* worker without end; the model follows at most this many requests a page.
MaxPageRequests == 3
\* A route name has at most this many characters.
MaxNameLen == 2
\* The provisioner is called at most this many times for a route.
MaxCalls == 2
\* A raw table has at most this many rows.
MaxRawRows == 2
\* The normaliser is run again while the bronze table and the raw table hold
\* together at most this many rows.
MaxBronzeRows == 4
\* The dates of a job are the days 1..MaxDate.
MaxDate == 3
\* At most this many jobs are stored.
MaxJobs == 2

(***************************************************************************)
(* Program constants of the extraction worker.                             *)
(***************************************************************************)
\* scraps.py RETRY_MAX
ETL_RETRY_MAX == 5
\* scraps.py queue.Queue(maxsize=1000), scaled to the model's page size.
ETL_QUEUE_MAXSIZE == 2

None == "None"

(***************************************************************************)
(* JSON items.  An item is a JSON object, written as the sequence of its   *)
(* keys in the order the API sent them (a key stands for its key/value     *)
(* pair).  <<>> is the empty object, which Python holds for false.         *)
(***************************************************************************)
ItemAB == <<1, 2>>
ItemBA == <<2, 1>>
ItemC == <<3>>
ItemEmpty == <<>>
Items == {ItemAB, ItemBA, ItemC, ItemEmpty}

\* The bodies ("data" lists) the mock API chooses from.
PageBodies == {<<ItemAB, ItemC>>, <<ItemBA, ItemEmpty>>}

RECURSIVE InsertSorted(_, _)
InsertSorted(k, s) ==
    IF s = <<>> THEN <<k>>
    ELSE IF k <= Head(s) THEN <<k>> \o s
    ELSE <<Head(s)>> \o InsertSorted(k, Tail(s))

RECURSIVE SortKeys(_)
SortKeys(s) == IF s = <<>> THEN <<>> ELSE InsertSorted(Head(s), SortKeys(Tail(s)))

\* json.dumps(item): the keys in the order they arrived.
JsonDumps(item) == [json |-> item]
\* json.dumps(item, sort_keys=True): the keys in sorted order.
JsonDumpsSorted(item) == [json |-> SortKeys(item)]
\* hashlib.md5(text).hexdigest(): a digest that depends on the text alone
\* (collisions of md5 are outside the model).
Md5Hex(text) == [md5 |-> text.json]
\* The content hash both workers compute.
HashContent(item) == Md5Hex(JsonDumpsSorted(item))

Hashes == {HashContent(i) : i \in Items}

\* Python truthiness of an item: the empty object is false.
Truthy(item) == item # <<>>

VARIABLES
    \* ---- persisted state -------------------------------------------------
    job_status,          \* clientes_scraps.status of the job
    registros_coletados, \* clientes_scraps.registros_coletados of the job
    raw_rows,            \* the raw table: number of rows per hash_conteudo
    env,                 \* what the store holds when a job starts
    \* ---- ETLWorker fields ------------------------------------------------
    stop_flag,           \* self._stop_flag
    data_queue,          \* self.data_queue
    total_registros,     \* self.total_registros
    \* ---- ETLWorker.run locals ---------------------------------------------
    pc, current_page, has_more_pages, retry_count, items_to_save,
    \* ---- other threads ---------------------------------------------------
    wpc,                 \* position of _database_writer
    spc,                 \* position of stop() in the UI thread
    \* ---- signals emitted --------------------------------------------------
    events,
    \* ---- history variables (not program state) -----------------------------
    seen,                \* hashes the worker has computed, over all jobs
    hist,                \* shape of the API's answers so far
    n_more,              \* non-empty pages answered with a continuation marker
    page_requests,       \* HTTP requests issued for the page being fetched
    last_req,            \* page number of the last HTTP request
    pages_put,           \* pages whose items all went through the put loop
    dropped,             \* an item was dropped on a full queue
    enq,                 \* hashes of the items put on the queue in this job
    wr_later,            \* the writer has inserted an item of a page after 1
    stop_pt,             \* where run was when the stop flag was raised
    set_running,         \* run has set the status to 'executando'
    gave_up,             \* page whose retries were all used up, or 0
    unmarked             \* the page of the last answer if it had no marker, or 0

etlVars == <<job_status, registros_coletados, raw_rows, env, stop_flag,
             data_queue, total_registros, pc, current_page, has_more_pages,
             retry_count, items_to_save, wpc, spc, events, seen,
             hist, n_more, page_requests, last_req, pages_put, dropped, enq,
             wr_later, stop_pt, set_running, gave_up, unmarked>>


VARIABLES
    now,                 \* the wall clock, in ticks
    last_request_time,   \* RateLimiter.last_request_time
    daily_count,         \* RateLimiter.daily_count
    daily_reset_time,    \* RateLimiter.daily_reset_time
    rl_lock,             \* RateLimiter.lock: 0 or the thread holding it
    d_env,               \* what run finds: the token, the pedidos
    d_stop_flag,         \* DetalhesWorker._stop_flag
    daily_limit_hit,     \* DetalhesWorker.daily_limit_hit
    d_data_queue,        \* DetalhesWorker.data_queue
    d_rows,              \* the detail table: the pedidos with a row
    dpc,                 \* position of DetalhesWorker.run
    batch_i,             \* run: i, the pedidos before the current batch
    sub_j,               \* _process_batch: pedidos of the batch gone through
    fut,                 \* _process_batch: the state of each future
    results,             \* _process_batch: results / run: batch_results
    fpc,                 \* position of each executor thread
    ftask,               \* the pedido each executor thread is fetching
    fretry,              \* _fetch_pedido_data: retry_count
    freq,                \* history: requests issued by the call under way
    over_retry,          \* history: a call issued more than RETRY_MAX requests
    ftmp,                \* the value of daily_count read by "+= 1"
    dwpc,                \* position of _database_writer_optimized
    batch_data,          \* writer: batch_data
    items_to_process,    \* writer: items_to_process
    dleft,               \* writer: iterations left of the draining for loop
    dspc,                \* position of stop() in the UI thread
    d_events,            \* the signals emitted
    n_grants,            \* history: acquisitions granted
    first_grant,         \* history: time of the first grant
    http_count,          \* history: HTTP requests issued, up to DAILY_LIMIT + 1
    erased,              \* history: a reset wiped a request of the new day
    quota_found,         \* history: a fetch found the quota exhausted
    batch_after_found,   \* history: a batch was started after that
    error_count,         \* DetalhesWorker.error_count
    discarded,           \* history: results stop() took out of the queue
    pending_at_stop      \* history: results queued or buffered at stop()

rlVars == <<now, last_request_time, daily_count, daily_reset_time, rl_lock>>
detVars == <<rlVars, d_env, d_stop_flag, daily_limit_hit, d_data_queue,
             d_rows, dpc, batch_i, sub_j, fut, results, fpc, ftask, fretry, freq,
             ftmp, dwpc, batch_data, items_to_process, dleft, dspc, d_events,
             n_grants, first_grant, http_count, erased, over_retry, quota_found,
             batch_after_found, error_count, discarded, pending_at_stop>>

(***************************************************************************)
(* The provisioner of raw tables (routes.py, criar_tabela_raw_rota).       *)
(***************************************************************************)
VARIABLES
    p_cliente_id,        \* the tenant id the provisioner is called with
    p_nome_rota,         \* the route name it is called with
    p_outra_rota,        \* the name typed for the other route of the tenant
    rotas,               \* the rows of clientes_api_rotas
    tables,              \* table_name of information_schema.tables
    n_create,            \* history: CREATE TABLE statements executed
    p_calls,             \* history: calls made
    p_ret,               \* history: the table names the calls returned
    p_raised             \* history: a call raised

provVars == <<p_cliente_id, p_nome_rota, p_outra_rota, rotas, tables,
              n_create, p_calls, p_ret, p_raised>>

(***************************************************************************)
(* The content hash of one payload, computed by either worker.             *)
(***************************************************************************)
VARIABLES
    h_p,                 \* a payload as the API sent it
    h_q,                 \* the same payload with its keys in another order
    h_by,                \* the worker that hashed them, or "none"
    h_hashes             \* the content hashes of h_p and h_q

hashVars == <<h_p, h_q, h_by, h_hashes>>

(***************************************************************************)
(* The normalisation of one parsed 200 body by the extraction worker.      *)
(***************************************************************************)
VARIABLES
    b_resp,              \* the answer of the API
    b_done,              \* the worker has normalised it
    b_items,             \* items_to_save after the normalisation
    b_more               \* has_more_pages after the normalisation

bodyVars == <<b_resp, b_done, b_items, b_more>>

(***************************************************************************)
(* The bronze normaliser (orquestrador_bronze.py, BronzeProcessor).        *)
(***************************************************************************)
VARIABLES
    bz_raw,              \* the payloads of the rows of the raw table, by id
    bz_pc,               \* where run is: "idle", "loop", "commit" or "done"
    bz_i,                \* the rows the loop has been through
    bz_tx,               \* the transaction of conn: "ok" or "aborted"
    bz_pending,          \* the bronze rows inserted and not yet committed
    bz_bronze,           \* the committed rows of the bronze table
    registros_processados,
    registros_com_erro,
    bz_events            \* the signals run has emitted

bronzeVars == <<bz_raw, bz_pc, bz_i, bz_tx, bz_pending, bz_bronze,
                registros_processados, registros_com_erro, bz_events>>

(***************************************************************************)
(* The submission of extraction jobs (scraps.py, ScrapsManager).           *)
(***************************************************************************)
VARIABLES
    clientes_scraps,     \* the rows of clientes_scraps, in the order of their ids
    s_in,                \* history: the form of the last submission
    s_msg                \* history: the message box that answered it

scrapVars == <<clientes_scraps, s_in, s_msg>>

(***************************************************************************)
(* The raw tables of two tenants and what the bronze normaliser derives    *)
(* from their names (routes.py, orquestrador_bronze.py).                   *)
(***************************************************************************)
VARIABLES
    n_rotas,             \* the (cliente_id, nome_rota) pairs to provision
    n_tabelas,           \* the table names the provisioner gave them
    n_ids,               \* the cliente_id run derived from each name
    n_bronze             \* the bronze table name run derived from each name

nameVars == <<n_rotas, n_tabelas, n_ids, n_bronze>>

\* The state of everything but the two workers.
sideVars == <<provVars, hashVars, bodyVars, bronzeVars, scrapVars, nameVars>>

\* The state outside the provisioner, outside the hashing and outside the
\* normalisation of a body.
outsideProv == <<etlVars, detVars, hashVars, bodyVars, bronzeVars, scrapVars, nameVars>>
outsideHash == <<etlVars, detVars, provVars, bodyVars, bronzeVars, scrapVars, nameVars>>
outsideBody == <<etlVars, detVars, provVars, hashVars, bronzeVars, scrapVars, nameVars>>
outsideBronze == <<etlVars, detVars, provVars, hashVars, bodyVars, scrapVars, nameVars>>
outsideScrap == <<etlVars, detVars, provVars, hashVars, bodyVars, bronzeVars, nameVars>>
outsideName == <<etlVars, detVars, provVars, hashVars, bodyVars, bronzeVars, scrapVars>>

vars == <<etlVars, detVars, provVars, hashVars, bodyVars, bronzeVars, scrapVars,
          nameVars>>

Pages == 1..MaxPages
STOP == [tag |-> "STOP"]

(***************************************************************************)
(* The API's possible answers to the request for page p.                   *)
(*   code 200 with a body of some shape, code 204 (a success that is not   *)
(*   200), code 500 (raise_for_status raises), code 0 (no response: a      *)
(*   transport error).  A dict body carries the continuation fields        *)
(*   next_page_url, current_page, last_page and total_pages, each of       *)
(*   which may be absent (None).                                           *)
(***************************************************************************)
\* A numeric field that the body does not carry.
Absent == 0 - 1

Markers(p) ==
    {[next_page_url |-> None, current_page |-> Absent, last_page |-> Absent, total_pages |-> Absent],
     [next_page_url |-> "url", current_page |-> Absent, last_page |-> Absent, total_pages |-> Absent],
     [next_page_url |-> None, current_page |-> p, last_page |-> p + 1, total_pages |-> Absent],
     [next_page_url |-> None, current_page |-> p, last_page |-> p, total_pages |-> Absent]}

NoMarkers == [next_page_url |-> None, current_page |-> Absent, last_page |-> Absent, total_pages |-> Absent]

\* dict.get(key, default)
Get(d, default) == IF d = Absent THEN default ELSE d

\* scraps.py 302-306: continuation inferred from the markers of a dict body.
MarkersSayMore(m) ==
    \/ m.next_page_url # None
    \/ Get(m.current_page, 0) < Get(m.last_page, 1)
    \/ Get(m.current_page, 0) < Get(m.total_pages, 1)

\* scraps.py 298-319: the items of a parsed 200 body.
NormalizeItems(r) ==
    CASE r.shape = "dict_data" -> r.items
      [] r.shape = "dict_other" -> r.items
      [] r.shape = "list" -> r.items
      [] OTHER -> <<>>

\* The continuation without lines 318-319: an empty page does not end
\* pagination.
NormalizeHasMoreNoEmptyCheck(r) ==
    IF r.shape = "dict_data" THEN MarkersSayMore(r.markers) ELSE FALSE

\* scraps.py 298-319: has_more_pages after a parsed 200 body.
NormalizeHasMore(r) ==
    IF NormalizeItems(r) = <<>> THEN FALSE
    ELSE IF r.shape = "dict_data" THEN MarkersSayMore(r.markers)
    ELSE FALSE

Plain(code, shape, items) ==
    [code |-> code, shape |-> shape, items |-> items, markers |-> NoMarkers]

AllResponses(p) ==
    {[code |-> 200, shape |-> "dict_data", items |-> b, markers |-> m] :
        b \in PageBodies \cup {<<>>}, m \in Markers(p)}
    \cup {Plain(200, "list", <<ItemC>>),
          Plain(200, "dict_other", <<ItemAB>>),
          Plain(200, "scalar", <<>>),
          Plain(200, "badjson", <<>>),
          Plain(500, "none", <<>>),
          Plain(0, "none", <<>>)}
    \cup (IF page_requests < MaxPageRequests
          THEN {Plain(204, "none", <<>>)}
          ELSE {})

\* The answers the mock API gives for page p: on page MaxPages it gives no
\* answer that makes the worker go on to a further page.
Responses(p) ==
    {r \in AllResponses(p) :
        p < MaxPages \/ r.code # 200 \/ r.shape = "badjson" \/ ~NormalizeHasMore(r)}

\* The body tells the client that more pages follow.
SignalsMore(r) ==
    /\ r.code = 200
    /\ r.shape = "dict_data"
    /\ \/ r.markers.next_page_url # None
       \/ /\ r.markers.current_page # Absent
          /\ r.markers.last_page # Absent
          /\ r.markers.current_page < r.markers.last_page

EtlInit ==
    /\ job_status = "pendente"
    /\ registros_coletados = 0
    /\ raw_rows = [h \in Hashes |-> 0]
    /\ env \in [scrap_found : BOOLEAN, tabela_raw : BOOLEAN,
                token : BOOLEAN, table_exists : BOOLEAN]
    /\ stop_flag = FALSE
    /\ data_queue = <<>>
    /\ total_registros = 0
    /\ pc = "init"
    /\ current_page = 1
    /\ has_more_pages = TRUE
    /\ retry_count = 0
    /\ items_to_save = <<>>
    /\ wpc = "off"
    /\ spc = "idle"
    /\ events = <<>>
    /\ seen = {}
    /\ hist = "clean"
    /\ n_more = 0
    /\ page_requests = 0
    /\ last_req = 0
    /\ pages_put = {}
    /\ dropped = FALSE
    /\ enq = {}
    /\ wr_later = FALSE
    /\ stop_pt = None
    /\ set_running = FALSE
    /\ gave_up = 0
    /\ unmarked = 0

(***************************************************************************)
(* Helpers of the extraction worker.                                       *)
(***************************************************************************)
QueueItem(item, page) ==
    [tag |-> "item", payload |-> JsonDumps(item), hash |-> HashContent(item),
     page |-> page]

\* queue.put_nowait: the queue after the put, or the same queue when Full.
PutNowait(q, x, maxsize) == IF Len(q) < maxsize THEN Append(q, x) ELSE q
QueueFull(q, maxsize) == Len(q) >= maxsize

\* The insert without its ON CONFLICT clause (or without the UNIQUE
\* constraint behind it): a row is added whatever the table holds.
InsertRawNoConflict(rows, h) == [rows EXCEPT ![h] = @ + 1]

\* INSERT ... ON CONFLICT (hash_conteudo) DO NOTHING on a table whose
\* hash_conteudo column is UNIQUE: the rows per hash after the statement.
InsertRaw(rows, h) ==
    IF rows[h] > 0 THEN rows ELSE [rows EXCEPT ![h] = 1]
\* cursor.rowcount of that statement.
InsertRowcount(rows, h) == IF rows[h] > 0 THEN 0 ELSE 1

\* The emission left out.
EmitLost(signal) == UNCHANGED events

\* scraps.py 73-75: signal.emit(...) of progress, finished or error.
Emit(signal) == events' = Append(events, signal)

\* The answers so far are k pages that signal more, then an empty page.
HistAfter(r) ==
    IF hist = "clean_then_empty" THEN "clean_then_empty"
    ELSE IF hist = "clean" /\ SignalsMore(r) /\ r.items # <<>> THEN "clean"
    ELSE IF hist = "clean" /\ r.code = 200 /\ r.shape = "dict_data" /\ r.items = <<>>
         THEN "clean_then_empty"
    ELSE "other"

\* The body is a dict whose "data" is a non-empty list and which carries
\* no next-page marker and no page-count field.
Unmarked(r) ==
    /\ r.code = 200
    /\ r.shape = "dict_data"
    /\ r.items # <<>>
    /\ r.markers = NoMarkers

\* The number of such pages, while the answers have that shape.
NMoreAfter(r) ==
    CASE HistAfter(r) = "clean" -> n_more + 1
      [] HistAfter(r) = "clean_then_empty" -> n_more
      [] OTHER -> 0

jobVars == <<job_status, registros_coletados>>
workerVars == <<stop_flag, data_queue, total_registros>>
pageVars == <<current_page, has_more_pages, retry_count, items_to_save>>
apiHist == <<hist, n_more, page_requests, last_req, gave_up, unmarked>>
putHist == <<seen, pages_put, dropped, enq>>

(***************************************************************************)
(* ETLWorker.run                                                           *)
(***************************************************************************)
\* The lookups without the test of the token row.
RunPreconditionsNoToken(e) == e.scrap_found /\ e.tabela_raw

\* scraps.py 166-185: the job's row is found, the route has a table name
\* and the tenant has a token row.
RunPreconditions(e) == e.scrap_found /\ e.tabela_raw /\ e.token

\* scraps.py 152-195: look the job up, check the route's table name and the
\* tenant's token, then persist status 'executando'.
RunStart ==
    /\ pc = "init"
    /\ IF ~RunPreconditions(env)
       THEN /\ Emit("error")
            /\ pc' = "done"
            /\ UNCHANGED <<job_status, set_running>>
       ELSE /\ job_status' = "executando"
            /\ set_running' = TRUE
            /\ pc' = "check_table"
            /\ UNCHANGED events
    /\ UNCHANGED <<registros_coletados, raw_rows, env, workerVars, pageVars,
                   wpc, spc, apiHist, putHist, wr_later, stop_pt>>
    /\ UNCHANGED <<detVars, sideVars>>

\* scraps.py 197-249: the table must exist; then the writer thread starts
\* and pagination begins at page 1.
RunCheckTable ==
    /\ pc = "check_table"
    /\ IF ~env.table_exists
       THEN /\ Emit("error")
            /\ pc' = "done"
            /\ UNCHANGED <<wpc, current_page, has_more_pages>>
       ELSE /\ wpc' = "loop"
            /\ current_page' = 1
            /\ has_more_pages' = TRUE
            /\ pc' = "loop"
            /\ UNCHANGED events
    /\ UNCHANGED <<jobVars, raw_rows, env, workerVars, retry_count,
                   items_to_save, spc, apiHist, putHist, wr_later, stop_pt,
                   set_running>>
    /\ UNCHANGED <<detVars, sideVars>>

\* The page loop without its has_more_pages test.
LoopIgnoresMore(more, flag) == ~flag

\* scraps.py 252: while has_more_pages and not self._stop_flag.
LoopContinues(more, flag) == more /\ ~flag

\* scraps.py 252-263: the head of the page loop.
RunLoopHead ==
    /\ pc = "loop"
    /\ IF LoopContinues(has_more_pages, stop_flag)
       THEN /\ retry_count' = 0
            /\ pc' = "retry"
       ELSE /\ pc' = "wait_writer"
            /\ UNCHANGED retry_count
    /\ UNCHANGED <<jobVars, raw_rows, env, workerVars, current_page,
                   has_more_pages, items_to_save, wpc, spc, events, apiHist,
                   putHist, wr_later, stop_pt, set_running>>
    /\ UNCHANGED <<detVars, sideVars>>

\* scraps.py 265-272: while retry_count < self.retry_max and not
\* self._stop_flag: issue the request for current_page.  When the loop is
\* left on the stop flag there is no 200 response, and line 292 continues
\* at the loop head.
RunRetryHead ==
    /\ pc = "retry"
    /\ IF retry_count < ETL_RETRY_MAX /\ ~stop_flag
       THEN /\ pc' = "http"
            /\ page_requests' = page_requests + 1
            /\ last_req' = current_page
            /\ UNCHANGED retry_count
       ELSE /\ pc' = "loop"
            /\ retry_count' = 0
            /\ UNCHANGED <<page_requests, last_req>>
    /\ UNCHANGED <<jobVars, raw_rows, env, workerVars, current_page,
                   has_more_pages, items_to_save, wpc, spc, events, hist,
                   n_more, gave_up, unmarked, putHist, wr_later, stop_pt,
                   set_running>>
    /\ UNCHANGED <<detVars, sideVars>>

\* scraps.py 277-292 on a failed attempt: count it, back off and retry, or
\* give up on pagination after retry_max attempts; the response, if any, is
\* not a 200 one, so line 292 continues at the loop head.
RetryOrGiveUp ==
    IF retry_count + 1 < ETL_RETRY_MAX
    THEN /\ retry_count' = retry_count + 1
         /\ pc' = "retry"
         /\ UNCHANGED <<has_more_pages, gave_up>>
    ELSE /\ retry_count' = 0
         /\ pc' = "loop"
         /\ has_more_pages' = FALSE
         /\ gave_up' = current_page

\* scraps.py 266-319: the request returns r.  raise_for_status raises on
\* code 500 and a transport error leaves no response; a success that is not
\* 200 is skipped at line 292 with the page number unchanged; a 200 body is
\* parsed (which may raise) and its shape normalized.
HandleResponse(r) ==
    IF r.code = 200 /\ r.shape = "badjson"
    THEN /\ pc' = "except"
         /\ UNCHANGED <<retry_count, has_more_pages, items_to_save,
                        page_requests, gave_up>>
    ELSE IF r.code = 200
    THEN /\ items_to_save' = NormalizeItems(r)
         /\ has_more_pages' = NormalizeHasMore(r)
         /\ retry_count' = 0
         /\ page_requests' = 0
         /\ pc' = "put"
         /\ UNCHANGED gave_up
    ELSE IF r.code = 204
    THEN /\ pc' = "loop"
         /\ retry_count' = 0
         /\ UNCHANGED <<has_more_pages, items_to_save, page_requests, gave_up>>
    ELSE /\ RetryOrGiveUp
         /\ UNCHANGED <<items_to_save, page_requests>>

RunHttp ==
    /\ pc = "http"
    /\ \E r \in Responses(current_page) :
        /\ hist' = HistAfter(r)
        /\ unmarked' = IF Unmarked(r) THEN current_page ELSE 0
        /\ n_more' = NMoreAfter(r)
        /\ HandleResponse(r)
    /\ UNCHANGED <<jobVars, raw_rows, env, workerVars, current_page, wpc, spc,
                   events, last_req, putHist, wr_later, stop_pt, set_running>>
    /\ UNCHANGED <<detVars, sideVars>>

\* The item at the head of items_to_save goes on the queue.
Enqueue ==
    /\ data_queue' = PutNowait(data_queue,
            QueueItem(Head(items_to_save), current_page), ETL_QUEUE_MAXSIZE)
    /\ items_to_save' = Tail(items_to_save)
    /\ enq' = enq \cup {HashContent(Head(items_to_save))}

\* scraps.py 322-333: the next item of the page: skipped when empty,
\* otherwise hashed and put on the queue; a full queue makes the producer
\* sleep and try once more.
RunPut ==
    /\ pc = "put"
    /\ items_to_save # <<>>
    /\ IF ~Truthy(Head(items_to_save))
       THEN /\ items_to_save' = Tail(items_to_save)
            /\ UNCHANGED <<seen, data_queue, pc, enq>>
       ELSE /\ seen' = seen \cup {HashContent(Head(items_to_save))}
            /\ IF QueueFull(data_queue, ETL_QUEUE_MAXSIZE)
               THEN /\ pc' = "put_retry"
                    /\ UNCHANGED <<data_queue, items_to_save, enq>>
               ELSE /\ Enqueue
                    /\ UNCHANGED pc
    /\ UNCHANGED <<jobVars, raw_rows, env, stop_flag, total_registros,
                   current_page, has_more_pages, retry_count, wpc,
                   spc, events, apiHist, pages_put, dropped, wr_later, stop_pt,
                   set_running>>
    /\ UNCHANGED <<detVars, sideVars>>

\* scraps.py 333-337: the second put after the sleep; the item is dropped
\* and logged when the queue is still full.
RunPutRetry ==
    /\ pc = "put_retry"
    /\ IF QueueFull(data_queue, ETL_QUEUE_MAXSIZE)
       THEN /\ dropped' = TRUE
            /\ items_to_save' = Tail(items_to_save)
            /\ UNCHANGED <<data_queue, enq>>
       ELSE /\ Enqueue
            /\ UNCHANGED dropped
    /\ pc' = "put"
    /\ UNCHANGED <<jobVars, raw_rows, env, stop_flag, total_registros,
                   current_page, has_more_pages, retry_count, wpc,
                   spc, events, apiHist, seen, pages_put, wr_later,
                   stop_pt, set_running>>
    /\ UNCHANGED <<detVars, sideVars>>

\* scraps.py 339-366: report progress, advance to the next page, leave the
\* loop when no page follows.
RunProgress ==
    /\ pc = "put"
    /\ items_to_save = <<>>
    /\ pages_put' = pages_put \cup {current_page}
    /\ Emit("progress")
    /\ current_page' = current_page + 1
    /\ pc' = IF ~has_more_pages THEN "wait_writer" ELSE "loop"
    /\ UNCHANGED <<jobVars, raw_rows, env, workerVars, has_more_pages,
                   retry_count, items_to_save, wpc, spc,
                   apiHist, seen, dropped, enq,
                   wr_later, stop_pt, set_running>>
    /\ UNCHANGED <<detVars, sideVars>>

\* scraps.py 368-375: if the writer thread is alive, put the sentinel (or
\* pass when the queue is full) and go on to join it.
RunWaitWriter ==
    /\ pc = "wait_writer"
    /\ IF wpc # "done"
       THEN /\ data_queue' = PutNowait(data_queue, STOP, ETL_QUEUE_MAXSIZE)
            /\ pc' = "join"
       ELSE /\ pc' = "final"
            /\ UNCHANGED data_queue
    /\ UNCHANGED <<jobVars, raw_rows, env, stop_flag, total_registros,
                   pageVars, wpc, spc, events, apiHist, putHist, wr_later,
                   stop_pt, set_running>>
    /\ UNCHANGED <<detVars, sideVars>>

\* scraps.py 377: writer_thread.join returns because the writer has ended.
RunJoin ==
    /\ pc = "join"
    /\ wpc = "done"
    /\ pc' = "final"
    /\ UNCHANGED <<jobVars, raw_rows, env, workerVars, pageVars, wpc, spc,
                   events, apiHist, putHist, wr_later, stop_pt, set_running>>
    /\ UNCHANGED <<detVars, sideVars>>

\* scraps.py 377: writer_thread.join(timeout=30) returns on its timeout.
RunJoinTimeout ==
    /\ pc = "join"
    /\ wpc # "done"
    /\ pc' = "final"
    /\ UNCHANGED <<jobVars, raw_rows, env, workerVars, pageVars, wpc, spc,
                   events, apiHist, putHist, wr_later, stop_pt, set_running>>
    /\ UNCHANGED <<detVars, sideVars>>

\* scraps.py 379-427: persist 'concluido' with the count and emit finished,
\* or persist 'cancelado' and emit error.
RunFinal ==
    /\ pc = "final"
    /\ IF ~stop_flag
       THEN /\ job_status' = "concluido"
            /\ registros_coletados' = total_registros
            /\ Emit("finished")
       ELSE /\ job_status' = "cancelado"
            /\ Emit("error")
            /\ UNCHANGED registros_coletados
    /\ pc' = "done"
    /\ UNCHANGED <<raw_rows, env, workerVars, pageVars, wpc, spc, apiHist,
                   putHist, wr_later, stop_pt, set_running>>
    /\ UNCHANGED <<detVars, sideVars>>

\* scraps.py 429-447: an exception anywhere in run: persist 'erro' and emit
\* error.
RunExcept ==
    /\ pc = "except"
    /\ job_status' = "erro"
    /\ Emit("error")
    /\ pc' = "done"
    /\ UNCHANGED <<registros_coletados, raw_rows, env, workerVars, pageVars,
                   wpc, spc, apiHist, putHist, wr_later, stop_pt, set_running>>
    /\ UNCHANGED <<detVars, sideVars>>

(***************************************************************************)
(* ETLWorker._database_writer                                              *)
(***************************************************************************)
\* scraps.py 110: while not self._stop_flag.
WriterLoop ==
    /\ wpc = "loop"
    /\ wpc' = IF stop_flag THEN "done" ELSE "get"
    /\ UNCHANGED <<jobVars, raw_rows, env, workerVars, pc, pageVars, spc,
                   events, apiHist, putHist, wr_later, stop_pt, set_running>>
    /\ UNCHANGED <<detVars, sideVars>>

\* scraps.py 113-133: take one entry; leave on the sentinel, otherwise
\* insert it, count it when a row was added, and commit.
WriterGet ==
    /\ wpc = "get"
    /\ data_queue # <<>>
    /\ LET data_item == Head(data_queue)
       IN /\ data_queue' = Tail(data_queue)
          /\ IF data_item.tag = "STOP"
             THEN /\ wpc' = "done"
                  /\ UNCHANGED <<raw_rows, total_registros, wr_later>>
             ELSE /\ raw_rows' = InsertRaw(raw_rows, data_item.hash)
                  /\ total_registros' =
                        total_registros + InsertRowcount(raw_rows, data_item.hash)
                  /\ wr_later' = (wr_later \/ data_item.page > 1)
                  /\ wpc' = "loop"
    /\ UNCHANGED <<jobVars, env, stop_flag, pc, pageVars, spc, events,
                   apiHist, putHist, stop_pt, set_running>>
    /\ UNCHANGED <<detVars, sideVars>>

\* scraps.py 135-137: queue.Empty after the one second timeout.
WriterTimeout ==
    /\ wpc = "get"
    /\ data_queue = <<>>
    /\ wpc' = "loop"
    /\ UNCHANGED <<jobVars, raw_rows, env, workerVars, pc, pageVars, spc,
                   events, apiHist, putHist, wr_later, stop_pt, set_running>>
    /\ UNCHANGED <<detVars, sideVars>>

(***************************************************************************)
(* ETLWorker.stop, called from the UI thread while run is executing.       *)
(***************************************************************************)
\* scraps.py 94: self._stop_flag = True.
StopSetFlag ==
    /\ spc = "idle"
    /\ pc \notin {"init", "done"}
    /\ stop_flag' = TRUE
    /\ spc' = "put"
    /\ stop_pt' = IF current_page = 2 /\ pc \in {"loop", "retry"}
                  THEN "after_page_1" ELSE "elsewhere"
    /\ UNCHANGED <<jobVars, raw_rows, env, data_queue, total_registros, pc,
                   pageVars, wpc, events, apiHist, putHist, wr_later, set_running>>
    /\ UNCHANGED <<detVars, sideVars>>

\* scraps.py 96-99: put the sentinel, or pass when the queue is full.
StopPut ==
    /\ spc = "put"
    /\ data_queue' = PutNowait(data_queue, STOP, ETL_QUEUE_MAXSIZE)
    /\ spc' = "done"
    /\ UNCHANGED <<jobVars, raw_rows, env, stop_flag, total_registros, pc,
                   pageVars, wpc, events, apiHist, putHist, wr_later, stop_pt,
                   set_running>>
    /\ UNCHANGED <<detVars, sideVars>>

(***************************************************************************)
(* A further job against the same route: a new job row and a new worker    *)
(* object; the raw table stays.  The operator starts it once the previous  *)
(* run has returned and its writer has nothing left to write.              *)
(***************************************************************************)
NewJob ==
    /\ pc = "done"
    /\ spc # "put"
    /\ wpc \in {"off", "done"} \/ \A i \in 1..Len(data_queue) : data_queue[i] = STOP
    /\ job_status' = "pendente"
    /\ registros_coletados' = 0
    /\ stop_flag' = FALSE
    /\ data_queue' = <<>>
    /\ total_registros' = 0
    /\ pc' = "init"
    /\ current_page' = 1
    /\ has_more_pages' = TRUE
    /\ retry_count' = 0
    /\ items_to_save' = <<>>
    /\ wpc' = "off"
    /\ spc' = "idle"
    /\ events' = <<>>
    /\ hist' = "clean"
    /\ n_more' = 0
    /\ page_requests' = 0
    /\ last_req' = 0
    /\ gave_up' = 0
    /\ unmarked' = 0
    /\ pages_put' = {}
    /\ dropped' = FALSE
    /\ enq' = {}
    /\ wr_later' = FALSE
    /\ stop_pt' = None
    /\ set_running' = FALSE
    /\ UNCHANGED <<raw_rows, env, seen>>
    /\ UNCHANGED <<detVars, sideVars>>

EtlNext ==
    \/ RunStart \/ RunCheckTable \/ RunLoopHead \/ RunRetryHead \/ RunHttp
    \/ RunPut \/ RunPutRetry \/ RunProgress \/ RunWaitWriter
    \/ RunJoin \/ RunJoinTimeout \/ RunFinal \/ RunExcept
    \/ WriterLoop \/ WriterGet \/ WriterTimeout
    \/ StopSetFlag \/ StopPut
    \/ NewJob

(***************************************************************************)
(* The rate limiter and the detail enrichment worker (scraps_detalhes.py). *)
(***************************************************************************)
\* Identifiers found in the bronze table.
NumPedidos == 3
\* Time spent in HTTP requests moves the clock up to MaxTime; sleeps move it
\* wherever they end.
MaxTime == 5

\* scraps_detalhes.py MAX_WORKERS, BATCH_SIZE, DB_BATCH_SIZE, RETRY_MAX,
\* DAILY_LIMIT and queue.Queue(maxsize=2000), scaled to NumPedidos.
MAX_WORKERS == 2
BATCH_SIZE == 2
DB_BATCH_SIZE == 2
DET_RETRY_MAX == 2
DAILY_LIMIT == 2
DET_QUEUE_MAXSIZE == 2
\* The clock counts ticks: min_interval = 1.0 / max_per_second is two ticks,
\* a day (timedelta(days=1)) is DayLen ticks, the cap of 300 seconds on the
\* sleep of a caller that finds the quota exhausted is SleepCap ticks.
MinInterval == 2
DayLen == 4
SleepCap == 2
\* The limiter is built at StartTime, with last_request_time 0; the run
\* starts then, or once the clock has reached the limiter's reset time.
StartTime == 2
\* The limiter is one object for the whole process: earlier runs of the
\* day have left up to MaxPrior requests in its counter.
MaxPrior == 1

Pedidos == 1..NumPedidos
Threads == 1..MAX_WORKERS
\* The sentinel ("STOP", None, None); a result tuple is its pedido_id.
StopItem == 0
HttpAnswers == {200, 429, 404, 500, 0}

Min(a, b) == IF a <= b THEN a ELSE b
Max(a, b) == IF a >= b THEN a ELSE b
SeqToSet(s) == {s[k] : k \in 1..Len(s)}

\* scraps_detalhes.py 89-93: the next midnight after t.
NextResetTime(t) == ((t \div DayLen) + 1) * DayLen

\* The comparison of line 102 with > for >=.
LimitExceeded(count) == count > DAILY_LIMIT

\* scraps_detalhes.py 102: return self.daily_count >= DAILY_LIMIT
LimitReached(count) == count >= DAILY_LIMIT

\* A limiter that does not wait for the interval to pass.
SleepNone(t, last) == t

\* scraps_detalhes.py 118-125: the clock after the sleep that completes
\* min_interval since the last request.
SleepInterval(t, last) == Max(t, last + MinInterval)

DetEnvs == [token : BOOLEAN, pedidos : {0, NumPedidos}]
DetEnvReady == [token |-> TRUE, pedidos |-> NumPedidos]

\* The state after RateLimiter() and DetalhesWorker() are constructed.
DetInitWith(e) ==
    /\ now \in {StartTime, NextResetTime(StartTime)}
    /\ last_request_time = 0
    /\ daily_count \in 0..Min(MaxPrior, DAILY_LIMIT)
    /\ daily_reset_time = NextResetTime(StartTime)
    /\ rl_lock = 0
    /\ d_env = e
    /\ d_stop_flag = FALSE
    /\ daily_limit_hit = FALSE
    /\ d_data_queue = <<>>
    /\ d_rows = {}
    /\ dpc = "init"
    /\ batch_i = 0
    /\ sub_j = 0
    /\ fut = [p \in Pedidos |-> "none"]
    /\ results = <<>>
    /\ fpc = [t \in Threads |-> "idle"]
    /\ ftask = [t \in Threads |-> 0]
    /\ fretry = [t \in Threads |-> 0]
    /\ freq = [t \in Threads |-> 0]
    /\ over_retry = FALSE
    /\ ftmp = [t \in Threads |-> 0]
    /\ dwpc = "off"
    /\ batch_data = <<>>
    /\ items_to_process = <<>>
    /\ dleft = 0
    /\ dspc = "idle"
    /\ d_events = <<>>
    /\ n_grants = 0
    /\ first_grant = 0
    /\ http_count = 0
    /\ erased = FALSE
    /\ quota_found = FALSE
    /\ batch_after_found = FALSE
    /\ error_count = 0
    /\ discarded = {}
    /\ pending_at_stop = {}

DetInit == \E e \in DetEnvs : DetInitWith(e)

DEmit(signal) == d_events' = Append(d_events, signal)

(***************************************************************************)
(* DetalhesWorker._fetch_pedido_data, run by the threads of the executor,  *)
(* with RateLimiter.check_daily_limit and RateLimiter.wait_if_needed.      *)
(***************************************************************************)
fetchFrame == <<d_env, d_stop_flag, d_data_queue, d_rows, dpc, batch_i, sub_j,
                results, dwpc, batch_data, items_to_process, dleft, dspc,
                discarded, pending_at_stop, d_events, batch_after_found, error_count>>

Goto(t, label) == fpc' = [fpc EXCEPT ![t] = label]

\* _fetch_pedido_data returns (result, status): the future is done.
Complete(t, status) ==
    /\ fut' = [fut EXCEPT ![ftask[t]] = status]
    /\ fpc' = [fpc EXCEPT ![t] = "idle"]
    /\ ftask' = [ftask EXCEPT ![t] = 0]
    /\ fretry' = [fretry EXCEPT ![t] = 0]
    /\ freq' = [freq EXCEPT ![t] = 0]

\* ThreadPoolExecutor: an idle thread takes the oldest pending future;
\* scraps_detalhes.py 203-204: the stop flag ends the call at once.
FetchStart(t) ==
    /\ fpc[t] = "idle"
    /\ \A u \in Threads : u < t => fpc[u] # "idle"
    /\ \E p \in Pedidos :
        /\ fut[p] = "pending"
        /\ \A q \in Pedidos : fut[q] = "pending" => p <= q
        /\ IF d_stop_flag
           THEN /\ fut' = [fut EXCEPT ![p] = "canceled"]
                /\ UNCHANGED <<fpc, ftask>>
           ELSE /\ fut' = [fut EXCEPT ![p] = "running"]
                /\ fpc' = [fpc EXCEPT ![t] = "chk_cmp"]
                /\ ftask' = [ftask EXCEPT ![t] = p]
    /\ UNCHANGED <<rlVars, daily_limit_hit, fretry, freq, ftmp, n_grants,
                   first_grant, http_count, erased, over_retry, quota_found, fetchFrame>>
    /\ UNCHANGED <<etlVars, sideVars>>

\* scraps_detalhes.py 97-98: now >= self.daily_reset_time, evaluated without
\* the lock (called at line 206) or with it (called at line 108).
CheckCompare(t) ==
    /\ fpc[t] \in {"chk_cmp", "w_cmp"}
    /\ Goto(t, IF now >= daily_reset_time
               THEN (IF fpc[t] = "chk_cmp" THEN "chk_reset" ELSE "w_reset")
               ELSE (IF fpc[t] = "chk_cmp" THEN "chk_ret" ELSE "w_ret"))
    /\ UNCHANGED <<rlVars, daily_limit_hit, fut, ftask, fretry, freq, ftmp,
                   n_grants, first_grant, http_count, erased, over_retry, quota_found,
                   fetchFrame>>
    /\ UNCHANGED <<etlVars, sideVars>>

\* A reset that finds the reset time already moved past the clock wipes
\* what was counted since the reset that moved it.
Erases == daily_reset_time > now /\ daily_count > 0

\* scraps_detalhes.py 99-100 and 115-116: the counter is zeroed and the
\* reset time moved to the next midnight.
CheckReset(t) ==
    /\ fpc[t] \in {"chk_reset", "w_reset", "w_reset2"}
    /\ daily_count' = 0
    /\ daily_reset_time' = NextResetTime(now)
    /\ erased' = (erased \/ Erases)
    /\ Goto(t, CASE fpc[t] = "chk_reset" -> "chk_ret"
                 [] fpc[t] = "w_reset" -> "w_ret"
                 [] OTHER -> "w_interval")
    /\ UNCHANGED <<now, last_request_time, rl_lock, daily_limit_hit, fut,
                   ftask, fretry, freq, ftmp, n_grants, first_grant, http_count,
                   over_retry, quota_found, fetchFrame>>
    /\ UNCHANGED <<etlVars, sideVars>>

\* scraps_detalhes.py 102 and 206-208: the unlocked check finds the quota
\* exhausted and raises daily_limit_hit, or the thread goes on to acquire.
FetchCheckReturn(t) ==
    /\ fpc[t] = "chk_ret"
    /\ IF LimitReached(daily_count)
       THEN /\ daily_limit_hit' = TRUE
            /\ quota_found' = TRUE
            /\ Complete(t, "daily_limit")
       ELSE /\ Goto(t, "lock")
            /\ UNCHANGED <<daily_limit_hit, quota_found, fut, ftask, fretry, freq>>
    /\ UNCHANGED <<rlVars, ftmp, n_grants, first_grant, http_count, erased, over_retry,
                   fetchFrame>>
    /\ UNCHANGED <<etlVars, sideVars>>

\* scraps_detalhes.py 106: with self.lock
AcquireLock(t) ==
    /\ fpc[t] = "lock"
    /\ rl_lock = 0
    /\ rl_lock' = t
    /\ Goto(t, "w_cmp")
    /\ UNCHANGED <<now, last_request_time, daily_count, daily_reset_time,
                   daily_limit_hit, fut, ftask, fretry, freq, ftmp, n_grants,
                   first_grant, http_count, erased, over_retry, quota_found, fetchFrame>>
    /\ UNCHANGED <<etlVars, sideVars>>

\* scraps_detalhes.py 102 and 108-116: with the quota exhausted the caller
\* sleeps min(wait_seconds, 300) holding the lock and returns True, or, the
\* reset time having passed meanwhile, goes on to reset the counter.
WaitCheckReturn(t) ==
    /\ fpc[t] = "w_ret"
    /\ IF LimitReached(daily_count)
       THEN IF daily_reset_time - now > 0
            THEN /\ now' = now + Min(daily_reset_time - now, SleepCap)
                 /\ rl_lock' = 0
                 /\ quota_found' = TRUE
                 /\ Complete(t, "daily_limit_wait")
            ELSE /\ Goto(t, "w_reset2")
                 /\ UNCHANGED <<now, rl_lock, quota_found, fut, ftask, fretry, freq>>
       ELSE /\ Goto(t, "w_interval")
            /\ UNCHANGED <<now, rl_lock, quota_found, fut, ftask, fretry, freq>>
    /\ UNCHANGED <<last_request_time, daily_count, daily_reset_time,
                   daily_limit_hit, ftmp, n_grants, first_grant, http_count,
                   erased, over_retry, fetchFrame>>
    /\ UNCHANGED <<etlVars, sideVars>>

\* scraps_detalhes.py 118-125: sleep until min_interval has passed since the
\* last request, then record the time of this one.
WaitInterval(t) ==
    /\ fpc[t] = "w_interval"
    /\ now' = SleepInterval(now, last_request_time)
    /\ last_request_time' = now'
    /\ n_grants' = n_grants + 1
    /\ first_grant' = IF n_grants = 0 THEN now' ELSE first_grant
    /\ Goto(t, "w_inc_read")
    /\ UNCHANGED <<daily_count, daily_reset_time, rl_lock, daily_limit_hit,
                   fut, ftask, fretry, freq, ftmp, http_count, erased, over_retry, quota_found,
                   fetchFrame>>
    /\ UNCHANGED <<etlVars, sideVars>>

\* scraps_detalhes.py 126: self.daily_count += 1 reads the counter ...
WaitIncRead(t) ==
    /\ fpc[t] = "w_inc_read"
    /\ ftmp' = [ftmp EXCEPT ![t] = daily_count]
    /\ Goto(t, "w_inc_write")
    /\ UNCHANGED <<rlVars, daily_limit_hit, fut, ftask, fretry, freq, n_grants,
                   first_grant, http_count, erased, over_retry, quota_found, fetchFrame>>
    /\ UNCHANGED <<etlVars, sideVars>>

\* ... and stores it plus one; line 128 returns False and frees the lock.
WaitIncWrite(t) ==
    /\ fpc[t] = "w_inc_write"
    /\ daily_count' = ftmp[t] + 1
    /\ ftmp' = [ftmp EXCEPT ![t] = 0]
    /\ rl_lock' = 0
    /\ Goto(t, "http")
    /\ UNCHANGED <<now, last_request_time, daily_reset_time, daily_limit_hit,
                   fut, ftask, fretry, freq, n_grants, first_grant, http_count,
                   erased, over_retry, quota_found, fetchFrame>>
    /\ UNCHANGED <<etlVars, sideVars>>

\* A 429 answer that does not count as an attempt.
RetryAfter429Same(count) == count

\* scraps_detalhes.py 225-229: a 429 answer counts as an attempt.
RetryAfter429(count) == count + 1

\* scraps_detalhes.py 214-254: one turn of the retry loop.  The request
\* takes d ticks; 200 is a success, 404 is definitive, 429 and the other
\* failures are tried again while retry_count < RETRY_MAX.
FetchHttp(t) ==
    /\ fpc[t] = "http"
    /\ IF fretry[t] >= DET_RETRY_MAX \/ d_stop_flag
       THEN /\ Complete(t, "max_retries_exceeded")
            /\ UNCHANGED <<now, http_count, over_retry>>
       ELSE \E answer \in HttpAnswers, d \in 0..1 :
            /\ d = 0 \/ now < MaxTime
            /\ now' = now + d
            /\ http_count' = Min(http_count + 1, DAILY_LIMIT + 1)
            /\ over_retry' = (over_retry \/ freq[t] >= DET_RETRY_MAX)
            /\ CASE answer = 200 -> Complete(t, "success")
                 [] answer = 404 -> Complete(t, "not_found")
                 [] answer = 429 ->
                        /\ fretry' = [fretry EXCEPT ![t] = RetryAfter429(@)]
                        /\ freq' = [freq EXCEPT ![t] = @ + 1]
                        /\ UNCHANGED <<fut, fpc, ftask>>
                 [] OTHER ->
                        IF fretry[t] + 1 < DET_RETRY_MAX
                        THEN /\ fretry' = [fretry EXCEPT ![t] = @ + 1]
                             /\ freq' = [freq EXCEPT ![t] = @ + 1]
                             /\ UNCHANGED <<fut, fpc, ftask>>
                        ELSE Complete(t, "failed")
    /\ UNCHANGED <<last_request_time, daily_count, daily_reset_time, rl_lock,
                   daily_limit_hit, ftmp, n_grants, first_grant, erased,
                   quota_found, fetchFrame>>
    /\ UNCHANGED <<etlVars, sideVars>>

(***************************************************************************)
(* DetalhesWorker.run and DetalhesWorker._process_batch                    *)
(***************************************************************************)
mainFrame == <<rlVars, d_env, d_stop_flag, d_rows, fpc, ftask, fretry, freq, ftmp,
               batch_data, items_to_process, dleft, dspc, discarded,
               pending_at_stop, n_grants, first_grant, http_count, erased, over_retry,
               quota_found>>

\* The slice without its upper end: batch = pedidos[i:]
BatchLenRest == d_env.pedidos - batch_i

\* len(batch) for batch = pedidos[i:i + BATCH_SIZE]
BatchLen == Min(BATCH_SIZE, d_env.pedidos - batch_i)
\* The pedidos of the batch that have a future.
Submitted == (batch_i + 1)..(batch_i + sub_j)
\* A future is done when _fetch_pedido_data has returned.
FutureDone(p) == fut[p] \notin {"none", "pending", "running", "consumed"}

\* scraps_detalhes.py 389-441: without a token or without pedidos the run
\* emits error and returns; otherwise it starts the writer thread.
DRunStart ==
    /\ dpc = "init"
    /\ IF ~d_env.token \/ d_env.pedidos = 0
       THEN /\ DEmit("error")
            /\ dpc' = "done"
            /\ UNCHANGED dwpc
       ELSE /\ dwpc' = "loop"
            /\ dpc' = "batch_head"
            /\ UNCHANGED d_events
    /\ UNCHANGED <<daily_limit_hit, d_data_queue, batch_i, sub_j, fut,
                   results, batch_after_found, error_count, mainFrame>>
    /\ UNCHANGED <<etlVars, sideVars>>

\* The test of line 444 without daily_limit_hit.
BreakOnStopOnly(stop, hit) == stop

\* The test of line 444 without the stop flag.
BreakOnLimitOnly(stop, hit) == hit

\* scraps_detalhes.py 444: if self._stop_flag or self.daily_limit_hit: break
BatchLoopBreaks(stop, hit) == stop \/ hit

\* scraps_detalhes.py 443-448: the head of the loop over the batches.
DBatchHead ==
    /\ dpc = "batch_head"
    /\ IF batch_i >= d_env.pedidos \/ BatchLoopBreaks(d_stop_flag, daily_limit_hit)
       THEN /\ dpc' = "after"
            /\ UNCHANGED <<sub_j, results, batch_after_found, error_count>>
       ELSE /\ dpc' = "submit"
            /\ sub_j' = 0
            /\ results' = <<>>
            /\ batch_after_found' = (batch_after_found \/ quota_found)
            /\ UNCHANGED error_count
    /\ UNCHANGED <<daily_limit_hit, d_data_queue, batch_i, fut, dwpc,
                   d_events, mainFrame>>
    /\ UNCHANGED <<etlVars, sideVars>>

\* scraps_detalhes.py 262-273: one future is submitted for each pedido of
\* the batch until the stop flag or daily_limit_hit is seen.
DSubmit ==
    /\ dpc = "submit"
    /\ IF sub_j >= BatchLen \/ d_stop_flag \/ daily_limit_hit
       THEN /\ dpc' = "collect"
            /\ UNCHANGED <<sub_j, fut>>
       ELSE /\ fut' = [fut EXCEPT ![batch_i + sub_j + 1] = "pending"]
            /\ sub_j' = sub_j + 1
            /\ UNCHANGED dpc
    /\ UNCHANGED <<daily_limit_hit, d_data_queue, batch_i, results, dwpc,
                   d_events, batch_after_found, error_count, mainFrame>>
    /\ UNCHANGED <<etlVars, sideVars>>

\* scraps_detalhes.py 287-293: every status but "success" takes the else
\* branch, which adds one to error_count.
CountsAsError(status) == status # "success"

\* scraps_detalhes.py 275-300: as_completed hands over a future that is
\* done; the loop ends on the stop flag, on daily_limit_hit, on a daily
\* limit status, or when every future has been handed over.
DCollect ==
    /\ dpc = "collect"
    /\ IF \A p \in Submitted : fut[p] = "consumed"
       THEN /\ dpc' = "shutdown"
            /\ UNCHANGED <<daily_limit_hit, fut, results, error_count>>
       ELSE \E p \in Submitted :
            /\ FutureDone(p)
            /\ IF d_stop_flag \/ daily_limit_hit
               THEN /\ dpc' = "shutdown"
                    /\ UNCHANGED <<daily_limit_hit, fut, results, error_count>>
               ELSE IF fut[p] \in {"daily_limit", "daily_limit_wait"}
               THEN /\ daily_limit_hit' = TRUE
                    /\ dpc' = "shutdown"
                    /\ UNCHANGED <<fut, results, error_count>>
               ELSE /\ fut' = [fut EXCEPT ![p] = "consumed"]
                    /\ results' = IF fut[p] = "success"
                                  THEN Append(results, p) ELSE results
                    /\ error_count' = IF CountsAsError(fut[p])
                                      THEN error_count + 1 ELSE error_count
                    /\ UNCHANGED <<daily_limit_hit, dpc>>
    /\ UNCHANGED <<d_data_queue, batch_i, sub_j, dwpc, d_events,
                   batch_after_found, mainFrame>>
    /\ UNCHANGED <<etlVars, sideVars>>

\* scraps_detalhes.py 260, 302: leaving the with block waits for every
\* submitted future to finish.
DShutdown ==
    /\ dpc = "shutdown"
    /\ \A p \in Pedidos : fut[p] \notin {"pending", "running"}
    /\ fut' = [p \in Pedidos |-> "none"]
    /\ sub_j' = 0
    /\ dpc' = "push"
    /\ UNCHANGED <<daily_limit_hit, d_data_queue, batch_i, results, dwpc,
                   d_events, batch_after_found, error_count, mainFrame>>
    /\ UNCHANGED <<etlVars, sideVars>>

\* scraps_detalhes.py 450-487: the results of the batch are put on the
\* queue until the stop flag or daily_limit_hit is seen; then progress is
\* reported and the loop goes to the next batch.
DPush ==
    /\ dpc = "push"
    /\ IF results = <<>> \/ d_stop_flag \/ daily_limit_hit
       THEN /\ batch_i' = batch_i + BATCH_SIZE
            /\ results' = <<>>
            /\ dpc' = "batch_head"
            /\ UNCHANGED d_data_queue
       ELSE IF QueueFull(d_data_queue, DET_QUEUE_MAXSIZE)
       THEN /\ dpc' = "push_retry"
            /\ UNCHANGED <<batch_i, results, d_data_queue>>
       ELSE /\ d_data_queue' = Append(d_data_queue, Head(results))
            /\ results' = Tail(results)
            /\ UNCHANGED <<batch_i, dpc>>
    /\ UNCHANGED <<daily_limit_hit, sub_j, fut, dwpc, d_events,
                   batch_after_found, error_count, mainFrame>>
    /\ UNCHANGED <<etlVars, sideVars>>

\* scraps_detalhes.py 455-460: after a short sleep the put is tried once
\* more; a queue still full loses the result.
DPushRetry ==
    /\ dpc = "push_retry"
    /\ d_data_queue' = PutNowait(d_data_queue, Head(results), DET_QUEUE_MAXSIZE)
    /\ results' = Tail(results)
    /\ dpc' = "push"
    /\ UNCHANGED <<daily_limit_hit, batch_i, sub_j, fut, dwpc, d_events,
                   batch_after_found, error_count, mainFrame>>
    /\ UNCHANGED <<etlVars, sideVars>>

\* scraps_detalhes.py 489-493 and 535-536: without a stop the sentinel is
\* put (and lost on a full queue); with a stop the run emits error.
DAfter ==
    /\ dpc = "after"
    /\ IF ~d_stop_flag
       THEN /\ d_data_queue' = PutNowait(d_data_queue, StopItem, DET_QUEUE_MAXSIZE)
            /\ dpc' = "join"
            /\ UNCHANGED d_events
       ELSE /\ DEmit("error")
            /\ dpc' = "done"
            /\ UNCHANGED d_data_queue
    /\ UNCHANGED <<daily_limit_hit, batch_i, sub_j, fut, results, dwpc,
                   batch_after_found, error_count, mainFrame>>
    /\ UNCHANGED <<etlVars, sideVars>>

\* scraps_detalhes.py 495-496: join returns when the writer has ended ...
DJoin ==
    /\ dpc = "join"
    /\ dwpc = "done"
    /\ dpc' = "final"
    /\ UNCHANGED <<daily_limit_hit, d_data_queue, batch_i, sub_j, fut,
                   results, dwpc, d_events, batch_after_found, error_count, mainFrame>>
    /\ UNCHANGED <<etlVars, sideVars>>

\* ... or after its timeout of 30 seconds.
DJoinTimeout ==
    /\ dpc = "join"
    /\ dwpc # "done"
    /\ dpc' = "final"
    /\ UNCHANGED <<daily_limit_hit, d_data_queue, batch_i, sub_j, fut,
                   results, dwpc, d_events, batch_after_found, error_count, mainFrame>>
    /\ UNCHANGED <<etlVars, sideVars>>

\* scraps_detalhes.py 498-534: finished is emitted, with the paused status
\* if daily_limit_hit is set.
DFinal ==
    /\ dpc = "final"
    /\ DEmit(IF daily_limit_hit THEN "finished_pausado" ELSE "finished_concluido")
    /\ dpc' = "done"
    /\ UNCHANGED <<daily_limit_hit, d_data_queue, batch_i, sub_j, fut,
                   results, dwpc, batch_after_found, error_count, mainFrame>>
    /\ UNCHANGED <<etlVars, sideVars>>

(***************************************************************************)
(* DetalhesWorker._database_writer_optimized                               *)
(***************************************************************************)
writerFrame == <<rlVars, d_env, d_stop_flag, daily_limit_hit, dpc, batch_i,
                 sub_j, fut, results, fpc, ftask, fretry, freq, ftmp, dspc,
                 d_events, n_grants, first_grant, http_count, erased, over_retry,
                 quota_found, batch_after_found, error_count, discarded, pending_at_stop>>

\* The insert without the test of the stop flag at line 346.
FinalFlushAlways(buffer, flag) == buffer # <<>>

\* scraps_detalhes.py 346: if batch_data and not self._stop_flag
FinalFlush(buffer, flag) == buffer # <<>> /\ ~flag

\* scraps_detalhes.py 358-387: INSERT ... ON CONFLICT (hash_conteudo) DO
\* NOTHING of the whole batch.
InsertBatch(rows, batch) == rows \cup SeqToSet(batch)

\* scraps_detalhes.py 315-318: the head of the writer's loop.
DWriterLoop ==
    /\ dwpc = "loop"
    /\ IF d_stop_flag
       THEN /\ dwpc' = "final"
            /\ UNCHANGED <<items_to_process, dleft>>
       ELSE /\ dwpc' = "drain"
            /\ items_to_process' = <<>>
            /\ dleft' = Min(DB_BATCH_SIZE, Len(d_data_queue) + 1)
    /\ UNCHANGED <<d_data_queue, d_rows, batch_data, writerFrame>>
    /\ UNCHANGED <<etlVars, sideVars>>

\* scraps_detalhes.py 318-341: one get_nowait of the draining loop.  The
\* sentinel flushes batch_data and ends the thread; an empty queue or the
\* end of the range moves the items to batch_data, which is inserted once
\* it holds DB_BATCH_SIZE results.
DWriterDrain ==
    /\ dwpc = "drain"
    /\ IF dleft = 0 \/ d_data_queue = <<>>
       THEN /\ IF /\ items_to_process # <<>>
                  /\ Len(batch_data \o items_to_process) >= DB_BATCH_SIZE
               THEN /\ d_rows' = InsertBatch(d_rows, batch_data \o items_to_process)
                    /\ batch_data' = <<>>
               ELSE /\ batch_data' = batch_data \o items_to_process
                    /\ UNCHANGED d_rows
            /\ items_to_process' = <<>>
            /\ dleft' = 0
            /\ dwpc' = "loop"
            /\ UNCHANGED d_data_queue
       ELSE IF Head(d_data_queue) = StopItem
       THEN /\ d_rows' = InsertBatch(d_rows, batch_data)
            /\ batch_data' = <<>>
            /\ d_data_queue' = Tail(d_data_queue)
            /\ dwpc' = "done"
            /\ UNCHANGED <<items_to_process, dleft>>
       ELSE /\ items_to_process' = Append(items_to_process, Head(d_data_queue))
            /\ d_data_queue' = Tail(d_data_queue)
            /\ dleft' = dleft - 1
            /\ UNCHANGED <<d_rows, batch_data, dwpc>>
    /\ UNCHANGED writerFrame
    /\ UNCHANGED <<etlVars, sideVars>>

\* scraps_detalhes.py 346-356: the flush after the loop.
DWriterFinal ==
    /\ dwpc = "final"
    /\ IF FinalFlush(batch_data, d_stop_flag)
       THEN d_rows' = InsertBatch(d_rows, batch_data)
       ELSE UNCHANGED d_rows
    /\ dwpc' = "done"
    /\ UNCHANGED <<d_data_queue, batch_data, items_to_process, dleft,
                   writerFrame>>
    /\ UNCHANGED <<etlVars, sideVars>>

(***************************************************************************)
(* DetalhesWorker.stop, called by the UI thread                            *)
(***************************************************************************)
Results(s) == SeqToSet(s) \ {StopItem}

\* scraps_detalhes.py 162: the flag is raised.
DStopSetFlag ==
    /\ dspc = "idle"
    /\ dpc # "done"
    /\ d_stop_flag' = TRUE
    /\ dspc' = "drain"
    /\ pending_at_stop' = Results(d_data_queue) \cup Results(items_to_process)
                            \cup Results(batch_data)
    /\ UNCHANGED <<rlVars, d_env, daily_limit_hit, d_data_queue, d_rows, dpc,
                   batch_i, sub_j, fut, results, fpc, ftask, fretry, freq, ftmp,
                   dwpc, batch_data, items_to_process, dleft, d_events,
                   n_grants, first_grant, http_count, erased, over_retry, quota_found,
                   batch_after_found, error_count, discarded>>
    /\ UNCHANGED <<etlVars, sideVars>>

\* scraps_detalhes.py 163-168: the queue is emptied, its items thrown away.
DStopDrain ==
    /\ dspc = "drain"
    /\ IF d_data_queue = <<>>
       THEN /\ dspc' = "done"
            /\ UNCHANGED <<d_data_queue, discarded>>
       ELSE /\ d_data_queue' = Tail(d_data_queue)
            /\ discarded' = discarded \cup Results(<<Head(d_data_queue)>>)
            /\ UNCHANGED dspc
    /\ UNCHANGED <<rlVars, d_env, d_stop_flag, daily_limit_hit, d_rows, dpc,
                   batch_i, sub_j, fut, results, fpc, ftask, fretry, freq, ftmp,
                   dwpc, batch_data, items_to_process, dleft, d_events,
                   n_grants, first_grant, http_count, erased, over_retry, quota_found,
                   batch_after_found, error_count, pending_at_stop>>
    /\ UNCHANGED <<etlVars, sideVars>>

\* The steps of a run that is not canceled: the executor threads, run and
\* the writer thread in its loop.
DetProgram ==
    \/ \E t \in Threads : FetchStart(t)
    \/ \E t \in Threads : CheckCompare(t)
    \/ \E t \in Threads : CheckReset(t)
    \/ \E t \in Threads : FetchCheckReturn(t)
    \/ \E t \in Threads : AcquireLock(t)
    \/ \E t \in Threads : WaitCheckReturn(t)
    \/ \E t \in Threads : WaitInterval(t)
    \/ \E t \in Threads : WaitIncRead(t)
    \/ \E t \in Threads : WaitIncWrite(t)
    \/ \E t \in Threads : FetchHttp(t)
    \/ DRunStart
    \/ DBatchHead
    \/ DSubmit
    \/ DCollect
    \/ DShutdown
    \/ DPush
    \/ DPushRetry
    \/ DAfter
    \/ DJoin
    \/ DJoinTimeout
    \/ DFinal
    \/ DWriterLoop
    \/ DWriterDrain

\* The program and the user, who may call stop; only then does the writer
\* leave its loop without the sentinel.
DetNext ==
    \/ DetProgram
    \/ DWriterFinal
    \/ DStopSetFlag
    \/ DStopDrain

(***************************************************************************)
(* Route names and table names (routes.py).  A name is the sequence of    *)
(* its characters.  The alphabet has a lower-case letter, an upper-case    *)
(* letter, an accented upper-case letter (A with an acute accent), a       *)
(* digit, the underscore and the space.                                    *)
(***************************************************************************)
Chars == {"a", "B", "A_acute", "1", "_", " "}
RouteNames == UNION {[1..n -> Chars] : n \in 1..MaxNameLen}
TenantIds == {1, 12}

\* str.lower, one character.
Lower(c) ==
    CASE c = "B" -> "b"
      [] c = "A_acute" -> "a_acute"
      [] OTHER -> c

\* The substitutions of the accented vowels and of the cedilla.
Deaccent(c) == IF c = "a_acute" THEN "a" ELSE c

\* [a-z0-9_]
DigitChars == <<"0", "1", "2", "3", "4", "5", "6", "7", "8", "9">>
TableChars == {"a", "b", "_"} \cup {DigitChars[i] : i \in 1..10}

SanitizeKeep(c) == c

\* Every other character becomes an underscore.
Sanitize(c) == IF c \in TableChars THEN c ELSE "_"

\* A run of underscores becomes one underscore.
RECURSIVE CollapseUnderscores(_)
CollapseUnderscores(s) ==
    IF Len(s) < 2 THEN s
    ELSE IF s[1] = "_" /\ s[2] = "_" THEN CollapseUnderscores(Tail(s))
    ELSE <<s[1]>> \o CollapseUnderscores(Tail(s))

\* str.strip('_')
RECURSIVE LStrip(_)
LStrip(s) == IF s # <<>> /\ s[1] = "_" THEN LStrip(Tail(s)) ELSE s

RECURSIVE RStrip(_)
RStrip(s) ==
    IF s # <<>> /\ s[Len(s)] = "_" THEN RStrip(SubSeq(s, 1, Len(s) - 1))
    ELSE s

normalizar_nome_tabela(nome) ==
    LET lowered == [i \in 1..Len(nome) |-> Lower(nome[i])]
        plain == [i \in 1..Len(nome) |-> Deaccent(lowered[i])]
        clean == [i \in 1..Len(nome) |-> Sanitize(plain[i])]
    IN  RStrip(LStrip(CollapseUnderscores(clean)))

\* str(cliente_id), cliente_id a positive integer.
RECURSIVE Str(_)
Str(n) ==
    IF n < 10 THEN <<DigitChars[n + 1]>>
    ELSE Str(n \div 10) \o <<DigitChars[(n % 10) + 1]>>

\* The name without the tenant's id.
NomeTabelaSemCliente(cliente_id, nome_rota) ==
    <<"r", "a", "w", "_">> \o normalizar_nome_tabela(nome_rota)

\* f"raw_{cliente_id}_{nome_normalizado}"
NomeTabela(cliente_id, nome_rota) ==
    <<"r", "a", "w", "_">> \o Str(cliente_id) \o <<"_">>
        \o normalizar_nome_tabela(nome_rota)

(***************************************************************************)
(* criar_tabela_raw_rota.  The catalog holds the names of the tables; a    *)
(* CREATE TABLE of a name the catalog holds raises DuplicateTable and      *)
(* creates nothing.                                                        *)
(***************************************************************************)
ProvInitWith(id, nome, outra) ==
    /\ p_cliente_id = id
    /\ p_nome_rota = nome
    /\ p_outra_rota = outra
    /\ rotas = {}
    /\ tables = {}
    /\ n_create = 0
    /\ p_calls = 0
    /\ p_ret = <<>>
    /\ p_raised = FALSE

\* The state of the provisioner in the runs of the workers, which never
\* call it.
ProvAtRest == ProvInitWith(1, <<"a">>, <<"a">>)

ProvInit ==
    \E id \in TenantIds : \E nome \in RouteNames : ProvInitWith(id, nome, nome)

TableExistsNever(catalog, nome_tabela) == FALSE

\* SELECT EXISTS (SELECT FROM information_schema.tables WHERE table_name = %s)
TableExists(catalog, nome_tabela) == nome_tabela \in catalog

criar_tabela_raw_rota ==
    /\ p_calls < MaxCalls
    /\ p_calls' = p_calls + 1
    /\ LET nome_tabela == NomeTabela(p_cliente_id, p_nome_rota) IN
         IF TableExists(tables, nome_tabela)
         THEN /\ p_ret' = Append(p_ret, nome_tabela)
              /\ UNCHANGED <<tables, n_create, p_raised>>
         ELSE /\ n_create' = n_create + 1
              /\ IF nome_tabela \in tables
                 THEN /\ p_raised' = TRUE
                      /\ UNCHANGED <<tables, p_ret>>
                 ELSE /\ tables' = tables \cup {nome_tabela}
                      /\ p_ret' = Append(p_ret, nome_tabela)
                      /\ UNCHANGED p_raised
    /\ UNCHANGED <<p_cliente_id, p_nome_rota, p_outra_rota, rotas, outsideProv>>

ProvNext == criar_tabela_raw_rota

(***************************************************************************)
(* AtlasDataFlowManager.salvar_rota for the tenant p_cliente_id and the    *)
(* text typed as the name of the route.  The rows of clientes_api_rotas    *)
(* are unique in (cliente_id, nome_rota); an exception leaves the handler  *)
(* before its commit.                                                      *)
(***************************************************************************)
\* str.strip()
RECURSIVE LStripSpaces(_)
LStripSpaces(s) == IF s # <<>> /\ s[1] = " " THEN LStripSpaces(Tail(s)) ELSE s

RECURSIVE RStripSpaces(_)
RStripSpaces(s) ==
    IF s # <<>> /\ s[Len(s)] = " "
    THEN RStripSpaces(SubSeq(s, 1, Len(s) - 1))
    ELSE s

StripSpaces(s) == RStripSpaces(LStripSpaces(s))

\* INSERT ... ON CONFLICT (cliente_id, nome_rota) DO UPDATE
Upsert(rows, row) ==
    {r \in rows : ~(r.cliente_id = row.cliente_id /\ r.nome_rota = row.nome_rota)}
        \cup {row}

salvar_rota(texto) ==
    LET nome_rota == StripSpaces(texto)
        nome_tabela == NomeTabela(p_cliente_id, nome_rota)
        row == [cliente_id |-> p_cliente_id, nome_rota |-> nome_rota,
                tabela_raw |-> nome_tabela]
    IN  /\ p_calls < MaxCalls
        /\ IF nome_rota = <<>>
           THEN UNCHANGED <<rotas, tables, n_create, p_calls, p_ret, p_raised>>
           ELSE /\ p_calls' = p_calls + 1
                /\ IF TableExists(tables, nome_tabela)
                   THEN /\ p_ret' = Append(p_ret, nome_tabela)
                        /\ rotas' = Upsert(rotas, row)
                        /\ UNCHANGED <<tables, n_create, p_raised>>
                   ELSE /\ n_create' = n_create + 1
                        /\ IF nome_tabela \in tables
                           THEN /\ p_raised' = TRUE
                                /\ UNCHANGED <<tables, p_ret, rotas>>
                           ELSE /\ tables' = tables \cup {nome_tabela}
                                /\ p_ret' = Append(p_ret, nome_tabela)
                                /\ rotas' = Upsert(rotas, row)
                                /\ UNCHANGED p_raised
        /\ UNCHANGED <<p_cliente_id, p_nome_rota, p_outra_rota, outsideProv>>

RotasInit ==
    \E id \in TenantIds : \E nome \in RouteNames : \E outra \in RouteNames :
        ProvInitWith(id, nome, outra)

RotasNext == salvar_rota(p_nome_rota) \/ salvar_rota(p_outra_rota)

(***************************************************************************)
(* Payloads with nested values, for the content hash.  A payload is a JSON *)
(* object: the sequence of its members in the order the API sent them.  A  *)
(* member has a key and a value that is an atom, an object or a list of    *)
(* objects; sub holds the objects of the value.  The objects of a value    *)
(* have atoms as values.                                                   *)
(***************************************************************************)
PayloadKeys == {1, 2}
Leaf(k) == [key |-> k, kind |-> "atom", sub |-> <<>>]
FlatObjects ==
    {<<>>} \cup {<<Leaf(k)>> : k \in PayloadKeys}
        \cup {<<Leaf(j), Leaf(k)>> : <<j, k>> \in {x \in PayloadKeys \X PayloadKeys : x[1] # x[2]}}
Members(k) ==
    {Leaf(k)} \cup {[key |-> k, kind |-> c, sub |-> <<o>>] :
                        <<c, o>> \in {"obj", "list"} \X FlatObjects}
Payloads ==
    {<<>>} \cup {<<m>> : m \in UNION {Members(k) : k \in PayloadKeys}}
        \cup UNION {{<<m, n>> : <<m, n>> \in Members(x[1]) \X Members(x[2])} :
                        x \in {y \in PayloadKeys \X PayloadKeys : y[1] # y[2]}}

\* The JSON value of an object, which has no key order.
UnorderedFlat(o) == {o[i] : i \in 1..Len(o)}
Unordered(p) ==
    {[key |-> p[i].key, kind |-> p[i].kind,
      sub |-> [j \in 1..Len(p[i].sub) |-> UnorderedFlat(p[i].sub[j])]] :
        i \in 1..Len(p)}

KeepMembers(o) == o

RECURSIVE InsertMember(_, _)
InsertMember(m, s) ==
    IF s = <<>> THEN <<m>>
    ELSE IF m.key <= Head(s).key THEN <<m>> \o s
    ELSE <<Head(s)>> \o InsertMember(m, Tail(s))

\* The members of one object in the order sort_keys=True writes them.
RECURSIVE SortMembers(_)
SortMembers(o) ==
    IF o = <<>> THEN <<>> ELSE InsertMember(Head(o), SortMembers(Tail(o)))

\* json.dumps(payload, sort_keys=True): the keys of every object sorted,
\* the elements of a list in their order.
JsonDumpsSortedDeep(p) ==
    LET s == SortMembers(p)
    IN  [json |-> [i \in 1..Len(s) |->
                    [key |-> s[i].key, kind |-> s[i].kind,
                     sub |-> [j \in 1..Len(s[i].sub) |-> SortMembers(s[i].sub[j])]]]]

\* hashlib.md5(json.dumps(payload, sort_keys=True).encode()).hexdigest()
HashPayload(p) == Md5Hex(JsonDumpsSortedDeep(p))

NoPayload == <<>>

HashAtRest ==
    /\ h_p = NoPayload
    /\ h_q = NoPayload
    /\ h_by = "none"
    /\ h_hashes = <<>>

HashInit ==
    /\ h_p \in Payloads
    /\ h_q \in {q \in Payloads : Unordered(q) = Unordered(h_p)}
    /\ h_by = "none"
    /\ h_hashes = <<>>

\* ETLWorker.run hashes the items that are not empty.
EtlHash ==
    /\ h_by = "none"
    /\ h_p # <<>>
    /\ h_by' = "etl"
    /\ h_hashes' = <<HashPayload(h_p), HashPayload(h_q)>>
    /\ UNCHANGED <<h_p, h_q, outsideHash>>

\* DetalhesWorker._fetch_pedido_data hashes the body of every 200 answer.
DetHash ==
    /\ h_by = "none"
    /\ h_by' = "det"
    /\ h_hashes' = <<HashPayload(h_p), HashPayload(h_q)>>
    /\ UNCHANGED <<h_p, h_q, outsideHash>>

HashNext == EtlHash \/ DetHash

(***************************************************************************)
(* The parsed 200 bodies the extraction worker normalises: the bodies of   *)
(* AllResponses, lists and dicts without a "data" list of every item, and  *)
(* the JSON values that are neither a dict nor a list.                     *)
(***************************************************************************)
ScalarShapes == {"scalar", "string", "number", "null"}

ParsedBodies(p) ==
    {r \in AllResponses(p) : r.code = 200 /\ r.shape # "badjson"}
        \cup {Plain(200, "list", b) : b \in PageBodies \cup {<<>>}}
        \cup {[code |-> 200, shape |-> "dict_other", items |-> <<i>>, markers |-> m] :
                i \in Items, m \in Markers(p)}
        \cup {Plain(200, k, <<>>) : k \in ScalarShapes}

NoBody == Plain(0, "none", <<>>)

BodyAtRest ==
    /\ b_resp = NoBody
    /\ b_done = FALSE
    /\ b_items = <<>>
    /\ b_more = FALSE

BodyInit ==
    /\ b_resp \in UNION {ParsedBodies(p) : p \in Pages}
    /\ b_done = FALSE
    /\ b_items = <<>>
    /\ b_more = FALSE

\* scraps.py 298-319
NormalizeBody ==
    /\ ~b_done
    /\ b_done' = TRUE
    /\ b_items' = NormalizeItems(b_resp)
    /\ b_more' = NormalizeHasMore(b_resp)
    /\ UNCHANGED <<b_resp, outsideBody>>

BodyNext == NormalizeBody

(***************************************************************************)
(* The bronze normaliser.  A JSON value that the normaliser reads as text  *)
(* is None, a string or a number, with its characters.  A payload is a     *)
(* raw row's payload column: its shape ("order" for a dict, "list" for a   *)
(* JSON array, "null", "bad_json" for a string that does not parse),       *)
(* whether its id fits the INTEGER column pedido_id, its comprador and the *)
(* other top-level keys it has, all with values that Python holds true.    *)
(***************************************************************************)
NoneVal == [t |-> "none", s |-> <<>>]
StrVal(s) == [t |-> "str", s |-> s]
NumVal(s) == [t |-> "num", s |-> s]

NoBuyer == [kind |-> "absent", documento |-> NoneVal, nome |-> NoneVal]
Comprador(d, n) == [kind |-> "dict", documento |-> d, nome |-> n]

\* The rows of usuarios.
Usuarios ==
    {[id |-> 1, documento |-> <<"1">>, nome |-> <<"B">>, ativo |-> TRUE,
      divisao_id |-> 1],
     [id |-> 2, documento |-> <<"2">>, nome |-> <<"a", "B", " ">>, ativo |-> TRUE,
      divisao_id |-> 1],
     [id |-> 3, documento |-> <<"3">>, nome |-> <<"c">>, ativo |-> FALSE,
      divisao_id |-> 2]}

Buyers ==
    {Comprador(StrVal(<<"1">>), StrVal(<<"a", "B">>)),
     Comprador(NoneVal, StrVal(<<" ", "a", "b">>)),
     Comprador(StrVal(<<"9">>), StrVal(<<"a", "b">>)),
     Comprador(NoneVal, NoneVal),
     Comprador(StrVal(<<"9">>), StrVal(<<"z">>)),
     Comprador(NumVal(<<"9">>), StrVal(<<"a", "b">>)),
     Comprador(StrVal(<<"3">>), NoneVal),
     [kind |-> "text", documento |-> NoneVal, nome |-> NoneVal]}

Order(id_ok, comprador, keys) ==
    [shape |-> "order", id_ok |-> id_ok, comprador |-> comprador, keys |-> keys]

RawPayloads ==
    {Order(ok, NoBuyer, {}) : ok \in BOOLEAN}
        \cup {[shape |-> k, id_ok |-> TRUE, comprador |-> NoBuyer, keys |-> {}] :
                k \in {"list", "null", "bad_json"}}
        \cup {Order(TRUE, c, {}) : c \in Buyers}
        \cup {Order(TRUE, NoBuyer, ks) : ks \in SUBSET {"valor_total", "total", "extra"}}

\* The keys the loop over payload.items() leaves out of metadata.
KnownKeys ==
    {"id", "status", "vendedor", "comprador", "data_baixa", "data_pedido",
     "observacao", "integracao", "financeiro", "endereco_entrega", "endereco",
     "itens", "items", "produtos", "valor_total", "total", "desconto",
     "valor_liquido", "liquido"}

\* BronzeProcessor._extrair_dados_pedido.  A column that takes its value
\* from a key of the payload holds the name of that key.
extrair_dados_pedido(payload) ==
    IF payload.shape # "order"
    THEN [ok |-> FALSE, pedido_id_ok |-> FALSE, comprador_documento |-> NoneVal,
          comprador_nome |-> NoneVal, valor_total |-> "none", metadata |-> {}]
    ELSE LET c == payload.comprador IN
         [ok |-> TRUE,
          pedido_id_ok |-> payload.id_ok,
          comprador_documento |-> IF c.kind = "dict" THEN c.documento ELSE NoneVal,
          comprador_nome |->
              IF c.kind = "dict" /\ c.nome.t # "none"
              THEN StrVal(StripSpaces(c.nome.s))
              ELSE NoneVal,
          valor_total |->
              IF "valor_total" \in payload.keys THEN "valor_total"
              ELSE IF "total" \in payload.keys THEN "total"
              ELSE "none",
          metadata |-> payload.keys \ KnownKeys]

LowerSeq(s) == [i \in 1..Len(s) |-> Lower(s[i])]

NoLink == [usuario_id |-> 0, divisao_id |-> 0]
Links(us) == {[usuario_id |-> u.id, divisao_id |-> u.divisao_id] : u \in us}

\* The users the two queries select from.
Candidates == {u \in Usuarios : u.ativo}

\* BronzeProcessor._mapear_usuario_divisao: the results it can return.  A
\* query in an aborted transaction raises, as does strip() of a number; the
\* function catches both and returns (None, None).
mapear_usuario_divisao(documento, nome, tx) ==
    IF documento.t = "num" THEN {NoLink}
    ELSE LET doc == StripSpaces(documento.s)
             by_doc == {u \in Candidates : u.documento = doc}
             by_nome == {u \in Candidates :
                            LowerSeq(StripSpaces(u.nome)) = LowerSeq(StripSpaces(nome.s))}
         IN  IF doc # <<>> /\ tx = "aborted" THEN {NoLink}
             ELSE IF doc # <<>> /\ by_doc # {} THEN Links(by_doc)
             ELSE IF StripSpaces(nome.s) = <<>> THEN {NoLink}
             ELSE IF tx = "aborted" THEN {NoLink}
             ELSE IF by_nome # {} THEN Links(by_nome)
             ELSE {NoLink}

(***************************************************************************)
(* BronzeProcessor.run over a raw table whose name it can read the tenant  *)
(* from.  The rows are inserted in one transaction, committed after the    *)
(* loop; a statement that fails aborts the transaction, every later        *)
(* statement of it then fails and its commit keeps nothing.                *)
(***************************************************************************)
BronzeInitWith(raw) ==
    /\ bz_raw = raw
    /\ bz_pc = "idle"
    /\ bz_i = 0
    /\ bz_tx = "ok"
    /\ bz_pending = <<>>
    /\ bz_bronze = <<>>
    /\ registros_processados = 0
    /\ registros_com_erro = 0
    /\ bz_events = <<>>

BronzeAtRest == BronzeInitWith(<<>>)

BronzeInit ==
    \E n \in 0..MaxRawRows : \E raw \in [1..n -> RawPayloads] : BronzeInitWith(raw)

\* Lines 264-322: the bronze table is created and committed, the raw rows
\* are counted and fetched.
BzStart ==
    /\ bz_pc = "idle"
    /\ bz_tx' = "ok"
    /\ IF Len(bz_raw) = 0
       THEN /\ bz_pc' = "done"
            /\ bz_events' = Append(bz_events, "finished")
       ELSE /\ bz_pc' = "loop"
            /\ bz_events' = Append(bz_events, "progress")
    /\ bz_i' = 0
    /\ registros_processados' = 0
    /\ registros_com_erro' = 0
    /\ UNCHANGED <<bz_raw, bz_pending, bz_bronze, outsideBronze>>

\* The INSERT of one bronze row raises.
InsertFails(dados, tx) == tx = "aborted" \/ ~dados.pedido_id_ok

\* Lines 325-435: one iteration of the loop.
BzRow ==
    /\ bz_pc = "loop"
    /\ bz_i < Len(bz_raw)
    /\ bz_i' = bz_i + 1
    /\ LET raw_id == bz_i + 1
           payload == bz_raw[raw_id]
           dados == extrair_dados_pedido(payload)
       IN  IF payload.shape \in {"bad_json", "null"} \/ ~dados.ok
           THEN /\ registros_com_erro' = registros_com_erro + 1
                /\ UNCHANGED <<bz_tx, bz_pending, registros_processados, bz_events>>
           ELSE \E link \in mapear_usuario_divisao(dados.comprador_documento,
                                                  dados.comprador_nome, bz_tx) :
                  IF InsertFails(dados, bz_tx)
                  THEN /\ bz_tx' = "aborted"
                       /\ registros_com_erro' = registros_com_erro + 1
                       /\ UNCHANGED <<bz_pending, registros_processados, bz_events>>
                  ELSE /\ bz_pending' =
                            Append(bz_pending,
                                   [raw_id |-> raw_id,
                                    usuario_id |-> link.usuario_id,
                                    divisao_id |-> link.divisao_id,
                                    valor_total |-> dados.valor_total,
                                    metadata |-> dados.metadata])
                       /\ registros_processados' = registros_processados + 1
                       /\ bz_events' =
                            IF (registros_processados + 1) % 10 = 0
                            THEN Append(bz_events, "progress")
                            ELSE bz_events
                       /\ UNCHANGED <<bz_tx, registros_com_erro>>
    /\ UNCHANGED <<bz_raw, bz_pc, bz_bronze, outsideBronze>>

\* Lines 437-470: the commit after the loop, the count and the final signal.
BzCommit ==
    /\ bz_pc = "loop"
    /\ bz_i = Len(bz_raw)
    /\ bz_bronze' = IF bz_tx = "ok" THEN bz_bronze \o bz_pending ELSE bz_bronze
    /\ bz_pending' = <<>>
    /\ bz_tx' = "ok"
    /\ bz_pc' = "done"
    /\ bz_events' = Append(bz_events, "finished")
    /\ UNCHANGED <<bz_raw, bz_i, registros_processados, registros_com_erro,
                   outsideBronze>>

BronzeNext == BzStart \/ BzRow \/ BzCommit

\* Lines 654-717: the operator processes the same raw table once more, with
\* a new BronzeProcessor; the bronze table stays as the last run left it.
processar_bronze ==
    /\ bz_pc = "done"
    /\ Len(bz_bronze) + Len(bz_raw) <= MaxBronzeRows
    /\ bz_pc' = "idle"
    /\ bz_i' = 0
    /\ registros_processados' = 0
    /\ registros_com_erro' = 0
    /\ bz_events' = <<>>
    /\ UNCHANGED <<bz_raw, bz_tx, bz_pending, bz_bronze, outsideBronze>>

BronzeRunsNext == BronzeNext \/ processar_bronze

(***************************************************************************)
(* ScrapsManager.salvar_scrap.  The form holds the tenant and the route    *)
(* the combos have current (0 when a combo has none) and two dates.        *)
(* The table has the constraint check_datas; an INSERT that breaks it      *)
(* raises and stores nothing.                                              *)
(***************************************************************************)
Dates == 1..MaxDate
Forms ==
    [cliente_id : {0, 1}, rota_id : {0, 1}, data_inicio : Dates, data_fim : Dates]
NoForm == [cliente_id |-> 0, rota_id |-> 0, data_inicio |-> 1, data_fim |-> 1]

ScrapAtRest ==
    /\ clientes_scraps = <<>>
    /\ s_in = NoForm
    /\ s_msg = "none"

\* CONSTRAINT check_datas CHECK (data_fim >= data_inicio)
check_datas(row) == row.data_fim >= row.data_inicio

DatesNotChecked(data_inicio, data_fim) == FALSE

\* if data_fim < data_inicio
DatesRejected(data_inicio, data_fim) == data_fim < data_inicio

salvar_scrap(form) ==
    /\ Len(clientes_scraps) < MaxJobs
    /\ s_in' = form
    /\ LET row == [id |-> Len(clientes_scraps) + 1,
                   cliente_id |-> form.cliente_id, rota_id |-> form.rota_id,
                   data_inicio |-> form.data_inicio, data_fim |-> form.data_fim,
                   status |-> "pendente", registros_coletados |-> 0]
       IN  IF form.cliente_id = 0 \/ form.rota_id = 0
           THEN s_msg' = "warning_selecione" /\ UNCHANGED clientes_scraps
           ELSE IF DatesRejected(form.data_inicio, form.data_fim)
           THEN s_msg' = "warning_datas" /\ UNCHANGED clientes_scraps
           ELSE IF ~check_datas(row)
           THEN s_msg' = "critical" /\ UNCHANGED clientes_scraps
           ELSE /\ s_msg' = "information"
                /\ clientes_scraps' = Append(clientes_scraps, row)
    /\ UNCHANGED outsideScrap

ScrapNext == \E form \in Forms : salvar_scrap(form)

(***************************************************************************)
(* The names of the raw tables of two tenants (routes.py 87-94) and what   *)
(* BronzeProcessor.run derives from a raw table's name                     *)
(* (orquestrador_bronze.py 47-60 and 269-277).                             *)
(***************************************************************************)
\* str.replace(old, new): every occurrence of old, from the left, without
\* overlap.
RECURSIVE Replace(_, _, _)
Replace(s, old, new) ==
    IF Len(s) < Len(old) THEN s
    ELSE IF SubSeq(s, 1, Len(old)) = old
    THEN new \o Replace(SubSeq(s, Len(old) + 1, Len(s)), old, new)
    ELSE <<Head(s)>> \o Replace(Tail(s), old, new)

\* s.split('_')[0]: what stands before the first underscore.
RECURSIVE FirstPart(_)
FirstPart(s) ==
    IF s = <<>> \/ Head(s) = "_" THEN <<>>
    ELSE <<Head(s)>> \o FirstPart(Tail(s))

\* The value of a digit character.
DigitValue(c) == CHOOSE d \in 0..9 : DigitChars[d + 1] = c

\* int() of a text of digits.
RECURSIVE DigitsValue(_)
DigitsValue(s) ==
    IF s = <<>> THEN 0
    ELSE 10 * DigitsValue(SubSeq(s, 1, Len(s) - 1)) + DigitValue(s[Len(s)])

\* The call raised ValueError.
Raised == [raised |-> TRUE, value |-> 0]

\* orquestrador_bronze.py 47-60: int() of the part of the name before the
\* first underscore, 'tbl_' removed; int raises on a text that is empty or
\* holds anything but digits (no part of a table name holds blanks or a
\* sign), and the handler raises ValueError in its turn.
extrair_cliente_id_da_tabela(nome_tabela) ==
    LET nome_sem_prefixo == Replace(nome_tabela, <<"t", "b", "l", "_">>, <<>>)
        parte == FirstPart(nome_sem_prefixo)
    IN  IF parte # <<>> /\ \A k \in 1..Len(parte) : parte[k] \in SeqToSet(DigitChars)
        THEN [raised |-> FALSE, value |-> DigitsValue(parte)]
        ELSE Raised

\* orquestrador_bronze.py 275: self.tabela_raw.replace('_raw', '_bronze')
nome_tabela_bronze(tabela_raw) ==
    Replace(tabela_raw, <<"_", "r", "a", "w">>,
            <<"_", "b", "r", "o", "n", "z", "e">>)

\* No bronze name: run was left before line 275.
NoName == <<>>

NameAtRest ==
    /\ n_rotas = <<>>
    /\ n_tabelas = <<>>
    /\ n_ids = <<>>
    /\ n_bronze = <<>>

\* A route of one tenant and a route of another.
NameInit ==
    \E a \in TenantIds : \E b \in TenantIds \ {a} : \E r \in RouteNames, s \in RouteNames :
        /\ n_rotas = <<[cliente_id |-> a, nome_rota |-> r],
                       [cliente_id |-> b, nome_rota |-> s]>>
        /\ n_tabelas = <<>>
        /\ n_ids = <<>>
        /\ n_bronze = <<>>

\* routes.py 87-151: the provisioner is called for the next route; it
\* returns the derived name, having created the table unless a table of
\* that name was there.  The tables are those named in n_tabelas.
ProvisionarRota ==
    /\ Len(n_tabelas) < Len(n_rotas)
    /\ LET rota == n_rotas[Len(n_tabelas) + 1]
           nome_tabela == NomeTabela(rota.cliente_id, rota.nome_rota)
       IN  n_tabelas' = Append(n_tabelas, nome_tabela)
    /\ UNCHANGED <<n_rotas, n_ids, n_bronze, outsideName>>

\* orquestrador_bronze.py 269-277 and 471-474: run derives the tenant from
\* the name of the raw table, and then the name of the bronze table; when
\* the first raises, run emits error and returns without the second.
BronzeNomes ==
    /\ Len(n_ids) < Len(n_tabelas)
    /\ LET tabela_raw == n_tabelas[Len(n_ids) + 1]
           cliente_id == extrair_cliente_id_da_tabela(tabela_raw)
       IN  /\ n_ids' = Append(n_ids, cliente_id)
           /\ n_bronze' = Append(n_bronze,
                                 IF cliente_id.raised THEN NoName
                                 ELSE nome_tabela_bronze(tabela_raw))
    /\ UNCHANGED <<n_rotas, n_tabelas, outsideName>>

NameNext == ProvisionarRota \/ BronzeNomes

(***************************************************************************)
(* The claims about the extraction worker.                                 *)
(***************************************************************************)
RECURSIVE SumRows(_)
SumRows(S) ==
    IF S = {} THEN 0
    ELSE LET h == CHOOSE x \in S : TRUE IN raw_rows[h] + SumRows(S \ {h})

\* Number of rows of the raw table.
RowCount == SumRows(Hashes)

\* Entries of the queue that are items of page p.
QueuedOfPage(p) ==
    {i \in 1..Len(data_queue) : data_queue[i] # STOP /\ data_queue[i].page = p}

\* The run has returned, its writer thread has ended and no call of stop
\* is under way.
RunOver == pc = "done" /\ wpc = "done" /\ spc # "put"

\* C1: if the stop flag is raised after page 1 has been fetched and before
\* page 2 is requested, the job ends canceled, every page-1 item that was put
\* on the queue has been written (none is left in the queue when the writer
\* has ended) and no item of a later page has been written.
C1_StopAfterPage1Drains ==
    (RunOver /\ stop_pt = "after_page_1") =>
        /\ job_status = "cancelado"
        /\ QueuedOfPage(1) = {}
        /\ ~wr_later

\* C2: the raw table holds at most one row per content hash, and only for
\* hashes the worker has seen, so its row count never exceeds the number of
\* distinct content hashes seen so far, over any sequence of jobs.
C2_OneRowPerHash ==
    /\ \A h \in Hashes : raw_rows[h] <= (IF h \in seen THEN 1 ELSE 0)
    /\ RowCount <= Cardinality(seen)

\* A later job has had items of two pages absorbed as duplicates: the writer
\* has inserted an item of a later page and counted no new row, while the
\* table holds a row for each hash seen.
C2_Witness ==
    /\ wr_later
    /\ total_registros = 0
    /\ RowCount = 2
    /\ RowCount = Cardinality(seen)

\* C3: once run has set the status to 'executando', it returns only with
\* the status set to 'concluido', 'cancelado' or 'erro'.
C3_RunEndsTerminal ==
    (pc = "done" /\ set_running) =>
        job_status \in {"concluido", "cancelado", "erro"}

\* The run was answered k pages that signal more and then an empty page,
\* and no stop was requested.
PaginationCase == pc = "done" /\ hist = "clean_then_empty" /\ spc = "idle"

C5_DailyCountWithinLimit == daily_count <= DAILY_LIMIT

\* The counter stands at the limit and a caller has been turned away.
C5_Witness == daily_count = DAILY_LIMIT /\ quota_found /\ n_grants > 0

\* C6: every HTTP request, retries included, has its own acquisition of the
\* limiter, so the requests issued before the first midnight, which all lie
\* in one reset window, number at most DAILY_LIMIT.
C6_RequestsWithinQuota ==
    now < NextResetTime(StartTime) =>
        /\ http_count <= n_grants
        /\ http_count <= DAILY_LIMIT

\* C7: the counter is reset once for a day boundary: no reset comes after
\* the reset time has been moved past the clock and wipes requests counted
\* in the new day.
C7_NoRequestErased == ~erased

\* C8: a grant comes at least min_interval after the grant before it, and
\* N grants span at least (N - 1) * min_interval.
C8_GrantsSpaced ==
    /\ [](n_grants >= 1 =>
            last_request_time - first_grant >= (n_grants - 1) * MinInterval)
    /\ [][(n_grants' = n_grants + 1 /\ n_grants >= 1) =>
            last_request_time' - last_request_time >= MinInterval]_vars

\* A thread is granted the limiter min_interval after the grant to another
\* thread, whose request is still under way.
C8_Witness ==
    /\ n_grants >= 2
    /\ last_request_time - first_grant = (n_grants - 1) * MinInterval
    /\ \E t, u \in Threads : fpc[t] = "w_inc_read" /\ fpc[u] = "http"

\* The run, its writer and the call of stop have all ended.
CancelOver == dspc = "done" /\ dpc = "done" /\ dwpc = "done"

C10_QuotaPauses ==
    /\ []((quota_found /\ ~d_stop_flag) =>
            /\ ~batch_after_found
            /\ dpc = "done" => d_events = <<"finished_pausado">>)
    /\ (quota_found /\ ~d_stop_flag) ~> (dpc = "done" \/ d_stop_flag)

\* The quota ran out in the first batch and the run ended paused with
\* pedidos of a later batch never fetched.
C10_Witness ==
    /\ quota_found
    /\ ~d_stop_flag
    /\ dpc = "done"
    /\ batch_i = BATCH_SIZE
    /\ batch_i < d_env.pedidos

(***************************************************************************)
(* The claims about failures, the queues and the shutdown of the writers.  *)
(***************************************************************************)
\* The job's preconditions hold: its row, the route's table and the
\* tenant's token are all there.
EnvReady == RunPreconditions(env) /\ env.table_exists

\* C11: a failure confined to one page, a 200 response whose body is not
\* JSON included, never makes the job end in status 'erro'; a job whose
\* table is provisioned and whose token is stored never ends in 'erro'.
C11_PageFailureNotFatal == EnvReady => job_status # "erro"

C13_NoMarkerEndsPagination == unmarked # 0 => last_req = unmarked

\* A step in which the extraction producer is done with a non-empty item:
\* the item has gone on the queue, or this was the second attempt, the
\* queue was full and the drop is recorded.
EtlItemHandled ==
    (/\ pc \in {"put", "put_retry"}
     /\ items_to_save # <<>>
     /\ Truthy(Head(items_to_save))
     /\ items_to_save' # items_to_save) =>
        /\ items_to_save' = Tail(items_to_save)
        /\ \/ data_queue' =
                Append(data_queue, QueueItem(Head(items_to_save), current_page))
           \/ /\ pc = "put_retry"
              /\ QueueFull(data_queue, ETL_QUEUE_MAXSIZE)
              /\ data_queue' = data_queue
              /\ dropped'

\* A step in which the enrichment producer is done with a result, no stop
\* having been requested: the result has gone on the queue, or this was the
\* second attempt and the queue was full.
DetResultHandled ==
    (/\ dpc \in {"push", "push_retry"}
     /\ results # <<>>
     /\ results' # results
     /\ ~d_stop_flag) =>
        /\ results' = Tail(results)
        /\ \/ d_data_queue' = Append(d_data_queue, Head(results))
           \/ /\ dpc = "push_retry"
              /\ QueueFull(d_data_queue, DET_QUEUE_MAXSIZE)
              /\ d_data_queue' = d_data_queue

\* The second attempt is made only after a first one that found the queue
\* full.
SecondPutOnlyWhenFull ==
    /\ (pc = "put" /\ pc' = "put_retry") =>
            QueueFull(data_queue, ETL_QUEUE_MAXSIZE)
    /\ (dpc = "push" /\ dpc' = "push_retry") =>
            QueueFull(d_data_queue, DET_QUEUE_MAXSIZE)

\* C14: a producer drops an item only after two put attempts that both
\* found the queue full, and records the drop; in every other case the item
\* is put on the queue exactly once.  For the extraction producer and for
\* the enrichment producer.
C14_DropOnlyAfterTwoFullPuts ==
    [][EtlItemHandled /\ DetResultHandled /\ SecondPutOnlyWhenFull]_vars

\* The hashes of the items that are in the extraction queue.
QueuedHashes ==
    {data_queue[i].hash : i \in {k \in 1..Len(data_queue) : data_queue[k] # STOP}}

\* C15: when a writer has taken the sentinel and ended, every item that was
\* put on the queue ahead of the sentinel is in the table.  For the
\* extraction writer: an item put on the queue has a row unless it is still
\* in the queue.  For the enrichment writer, which ends with the stop flag
\* down only on the sentinel: no result it took from the queue is left
\* unwritten in items_to_process or in batch_data.
C15_SentinelDrains ==
    /\ wpc = "done" => \A h \in enq \ QueuedHashes : raw_rows[h] > 0
    /\ (dwpc = "done" /\ ~d_stop_flag) =>
            Results(items_to_process) \cup Results(batch_data) \subseteq d_rows

\* C16: if no token is stored for the tenant when a run starts, the run
\* aborts: its writer thread is never started, no HTTP request is issued,
\* and the run returns having emitted error and nothing else.  For the
\* extraction worker and for the enrichment worker.
C16_NoTokenAborts ==
    /\ ~env.token =>
            /\ wpc = "off"
            /\ last_req = 0
            /\ pc = "done" => events = <<"error">>
    /\ ~d_env.token =>
            /\ dwpc = "off"
            /\ http_count = 0
            /\ n_grants = 0
            /\ dpc = "done" => d_events = <<"error">>

\* C17: for each pedido the enrichment worker issues at most RETRY_MAX HTTP
\* requests, whatever mix of transport errors, 5xx and 429 answers it gets:
\* no request is issued by a call that has issued RETRY_MAX already.
C17_AtMostRetryMaxRequests ==
    /\ ~over_retry
    /\ \A t \in Threads : freq[t] <= DET_RETRY_MAX

\* A call has issued RETRY_MAX requests, all answered with failures, and is
\* back at the head of its retry loop.
C17_Witness ==
    \E t \in Threads :
        /\ fpc[t] = "http"
        /\ freq[t] = DET_RETRY_MAX
        /\ fretry[t] = DET_RETRY_MAX

\* C18: a pedido whose fetch ends with HTTP 404 is treated as not found
\* and not as an error: the fetch has returned and is not tried again, and
\* the step of _process_batch that takes its result leaves error_count as
\* it was.
C18_NotFoundIsNotAnError ==
    [][\A p \in Pedidos :
            /\ fut[p] = "not_found" =>
                    fut'[p] \in {"not_found", "consumed", "none"}
            /\ (fut[p] = "not_found" /\ fut'[p] = "consumed") =>
                    error_count' = error_count]_vars

\* The pedidos whose fetch is in flight: an executor thread is running it.
InFlight == {p \in Pedidos : fut[p] = "running"}

\* scraps_detalhes.py 443-447: the batch that pedido number p belongs to.
BatchOf(p) == (p - 1) \div BATCH_SIZE

C16_Witness ==
    /\ ~d_env.token
    /\ d_env.pedidos > 0
    /\ dpc = "done"
    /\ d_events = <<"error">>

WellFormed(n) ==
    /\ \A i \in 1..Len(n) : n[i] \in TableChars
    /\ \A i \in 1..(Len(n) - 1) : ~(n[i] = "_" /\ n[i + 1] = "_")
    /\ n # <<>> => n[1] # "_" /\ n[Len(n)] # "_"

C21_DistinctRoutesDistinctTables ==
    \A r1 \in rotas : \A r2 \in rotas :
        (r1.cliente_id = r2.cliente_id /\ r1.nome_rota # r2.nome_rota)
            => r1.tabela_raw # r2.tabela_raw

(***************************************************************************)
(* The claims about payloads.                                              *)
(***************************************************************************)
\* C22: a payload and any reordering of the keys of its objects, nested
\* ones included, get the same content hash from either worker.
C22_HashStableUnderKeyOrder ==
    h_by # "none" => h_hashes[1] = h_hashes[2]

\* A worker hashed a payload and a reordering of it that differs at the top
\* level and inside a nested object.
C22_Witness ==
    /\ h_by = "etl"
    /\ h_p[1].key # h_q[1].key
    /\ \E i \in 1..Len(h_p) : \E j \in 1..Len(h_q) :
          /\ h_p[i].key = h_q[j].key
          /\ h_p[i].kind = "list"
          /\ h_p[i].sub # h_q[j].sub
    /\ h_hashes[1] = h_hashes[2]

\* C23: the normalisation of a parsed 200 body yields the elements of the
\* "data" list of a dict that has one, the elements of a bare list with no
\* continuation, and for every other value one item, the value itself, with
\* no continuation.
C23_BodyNormalisation ==
    b_done =>
        /\ b_resp.shape = "dict_data" => b_items = b_resp.items
        /\ b_resp.shape = "list" => b_items = b_resp.items /\ ~b_more
        /\ b_resp.shape = "dict_other" => b_items = <<b_resp.items[1]>> /\ ~b_more
        /\ b_resp.shape \in ScalarShapes => Len(b_items) = 1 /\ ~b_more

(***************************************************************************)
(* The claims about the bronze normaliser.                                 *)
(***************************************************************************)
\* A raw row whose own processing and insertion do not fail.
Sound(payload) == payload.shape = "order" /\ payload.id_ok

\* C24: when a run of the normaliser has ended, every raw row that did not
\* fail itself has its row in the bronze table, whatever rows before or
\* after it failed, and every row that failed is counted as an error.
C24_RowFailureIsolated ==
    bz_pc = "done" =>
        /\ \A i \in 1..Len(bz_raw) :
              Sound(bz_raw[i]) => \E k \in 1..Len(bz_bronze) : bz_bronze[k].raw_id = i
        /\ registros_com_erro =
              Cardinality({i \in 1..Len(bz_raw) : ~Sound(bz_raw[i])})

\* The bronze rows of the run, committed or not yet.
BronzeRows == {bz_bronze[k] : k \in 1..Len(bz_bronze)} \cup {bz_pending[k] : k \in 1..Len(bz_pending)}

\* The active users whose document is the buyer's document, and those whose
\* trimmed lower-case name is the buyer's.
DocMatches(c) ==
    {u \in Candidates : c.kind = "dict" /\ c.documento.t = "str" /\ u.documento = c.documento.s}
NameMatches(c) ==
    {u \in Candidates :
        /\ c.kind = "dict"
        /\ c.nome.t = "str"
        /\ LowerSeq(StripSpaces(u.nome)) = LowerSeq(StripSpaces(c.nome.s))}

\* C25: a bronze row links to a user with the buyer's document if there is
\* one, whoever has the buyer's name; otherwise to a user with the buyer's
\* trimmed, case-insensitive name; and to no user and no division when
\* neither exists, as when the payload has no buyer.
C25_BuyerResolution ==
    \A b \in BronzeRows :
        LET c == bz_raw[b.raw_id].comprador IN
        /\ DocMatches(c) # {} => b.usuario_id \in {u.id : u \in DocMatches(c)}
        /\ (DocMatches(c) = {} /\ NameMatches(c) # {})
              => b.usuario_id \in {u.id : u \in NameMatches(c)}
        /\ (DocMatches(c) = {} /\ NameMatches(c) = {})
              => b.usuario_id = 0 /\ b.divisao_id = 0

\* C26: every top-level field of the payload of a bronze row is carried
\* into a typed column of the row or kept in the row's metadata.
C26_NoTopLevelFieldLost ==
    \A b \in BronzeRows :
        \A k \in bz_raw[b.raw_id].keys : b.valor_total = k \/ k \in b.metadata

(***************************************************************************)
(* The claims about the submission of jobs.                                *)
(***************************************************************************)
\* C28: a submission with an end date before its start date is answered
\* with the warning about the dates and leaves the stored jobs as they were;
\* no stored job has its end date before its start date.
C28_EndBeforeStartRejected ==
    [][(s_in'.cliente_id # 0 /\ s_in'.rota_id # 0
            /\ s_in'.data_fim < s_in'.data_inicio)
         => /\ s_msg' = "warning_datas"
            /\ clientes_scraps' = clientes_scraps
            /\ \A k \in 1..Len(clientes_scraps') :
                  clientes_scraps'[k].data_fim >= clientes_scraps'[k].data_inicio]_vars

\* A submission with its end date before its start date was answered while
\* a job was stored.
C28_Witness ==
    /\ Len(clientes_scraps) = 1
    /\ s_in.cliente_id = 1
    /\ s_in.rota_id = 1
    /\ s_in.data_fim < s_in.data_inicio
    /\ s_msg = "warning_datas"

(***************************************************************************)
(* The claims about the requests of one extraction run.                    *)
(***************************************************************************)
\* C29: in one extraction run the worker issues at most RETRY_MAX HTTP
\* requests for the page it is fetching, whatever the API answers.
C29_AtMostRetryMaxPerPage == page_requests <= ETL_RETRY_MAX

TerminalSignals == {"finished", "error"}

\* The positions of events that hold a terminal signal.
TerminalAt == {k \in 1..Len(events) : events[k] \in TerminalSignals}

\* C31: a run of the extraction worker that has returned has emitted
\* exactly one terminal event, finished or error, and it is the last event;
\* a run that has not returned has emitted none.
C31_OneTerminalEvent ==
    /\ pc = "done" => TerminalAt = {Len(events)} /\ events # <<>>
    /\ pc # "done" => TerminalAt = {}

\* A run reported progress for a page and returned with finished.
C31_Witness ==
    /\ pc = "done"
    /\ Len(events) >= 2
    /\ events[1] = "progress"
    /\ events[Len(events)] = "finished"

\* C32: when the job is marked 'concluido' no item is left on the queue
\* and the persisted registros_coletados is the number of rows the run's
\* writer added to the raw table.
C32_CountMatchesRowsAdded ==
    job_status = "concluido" =>
        /\ \A k \in 1..Len(data_queue) : data_queue[k] = STOP
        /\ registros_coletados = total_registros

\* C33: once a run of the extraction worker has returned, having emitted
\* its terminal event, its writer thread ends in the end, if it was started.
C33_WriterEventuallyExits ==
    [](pc = "done" => <>(wpc \in {"off", "done"}))

(***************************************************************************)
(* The claims about the results of an enrichment run.                      *)
(***************************************************************************)
\* C34: in a run that is not canceled, a result that _process_batch
\* returned, counted in success_count, leaves the list of the batch's
\* results only by going on the write queue, or by being dropped on the
\* second attempt with the queue full; the daily limit makes no difference.
C34_NoSuccessDiscarded ==
    [][(/\ dpc \in {"push", "push_retry"}
        /\ ~d_stop_flag) =>
            \A r \in SeqToSet(results) \ SeqToSet(results') :
                \/ r \in SeqToSet(d_data_queue') \ SeqToSet(d_data_queue)
                \/ /\ dpc = "push_retry"
                   /\ QueueFull(d_data_queue, DET_QUEUE_MAXSIZE)]_vars

\* The run has emitted finished.
DetFinished ==
    \E k \in 1..Len(d_events) :
        d_events[k] \in {"finished_pausado", "finished_concluido"}

\* C35: when an enrichment run has emitted finished, every result that was
\* put on the queue has its row: none is left on the queue, none among the
\* results the writer took in its last pass and none in the writer's buffer.
C35_FinishedMeansWritten ==
    DetFinished =>
        Results(d_data_queue) \cup Results(items_to_process)
            \cup Results(batch_data) \subseteq d_rows

(***************************************************************************)
(* The claims about runs of the bronze normaliser over one raw table.      *)
(***************************************************************************)
\* C36: after any number of runs over the same raw table no two rows of the
\* bronze table hold the same raw_id.
C36_OneBronzeRowPerRawId ==
    \A j \in 1..Len(bz_bronze) : \A k \in 1..Len(bz_bronze) :
        bz_bronze[j].raw_id = bz_bronze[k].raw_id => j = k

(***************************************************************************)
(* The claims about the names of the tables.                               *)
(***************************************************************************)
\* C37: for every raw table name the provisioner gave, run derives the
\* tenant id of the route it was given for, and a bronze table name that is
\* not the raw table's name.
C37_BronzeDerivesTenantAndName ==
    \A k \in 1..Len(n_ids) :
        /\ ~n_ids[k].raised
        /\ n_ids[k].value = n_rotas[k].cliente_id
        /\ n_bronze[k] # NoName
        /\ n_bronze[k] # n_tabelas[k]

\* C38: the raw table names the provisioner gives to routes of two
\* different tenants are different, whatever the names of the routes.
C38_TenantsNeverShareTable ==
    \A j \in 1..Len(n_tabelas) : \A k \in 1..Len(n_tabelas) :
        n_rotas[j].cliente_id # n_rotas[k].cliente_id
            => n_tabelas[j] # n_tabelas[k]

\* Tenant 1 and tenant 12 each have a route named "a" and both have their
\* tables, raw_1_a and raw_12_a.
C38_Witness ==
    /\ Len(n_tabelas) = 2
    /\ n_rotas[1] = [cliente_id |-> 1, nome_rota |-> <<"a">>]
    /\ n_rotas[2] = [cliente_id |-> 12, nome_rota |-> <<"a">>]
    /\ n_tabelas[1] = <<"r", "a", "w", "_", "1", "_", "a">>
    /\ n_tabelas[2] = <<"r", "a", "w", "_", "1", "2", "_", "a">>

(***************************************************************************)
(* The specifications: the extraction worker with the enrichment worker    *)
(* not started, and the enrichment worker with no extraction job.          *)
(***************************************************************************)
\* Nothing but the workers runs.
SideAtRest == ProvAtRest /\ HashAtRest /\ BodyAtRest /\ BronzeAtRest /\ ScrapAtRest /\ NameAtRest

Init ==
    /\ EtlInit
    /\ DetInitWith(DetEnvReady) /\ daily_count = 0 /\ now = StartTime
    /\ SideAtRest

Next == EtlNext

Spec == Init /\ [][Next]_vars

EtlIdle ==
    /\ EtlInit
    /\ env = [scrap_found |-> TRUE, tabela_raw |-> TRUE, token |-> TRUE,
              table_exists |-> TRUE]

InitDet == EtlIdle /\ DetInit /\ SideAtRest

SpecDet == InitDet /\ [][DetNext]_vars

\* Either worker, one at a time: the steps of the extraction worker while
\* the enrichment worker is at rest in its ready state, and the steps of the
\* enrichment worker while the extraction worker is at rest.  The two share
\* no state.
DetAtRest == DetInitWith(DetEnvReady) /\ daily_count = 0 /\ now = StartTime

InitEither == Init \/ InitDet

NextEither == (DetAtRest /\ EtlNext) \/ (EtlIdle /\ DetNext)

SpecEither == InitEither /\ [][NextEither]_vars

\* The provisioner, called for one route while both workers are at rest.
\* Both workers at rest.
WorkersAtRest == EtlIdle /\ DetAtRest

InitProv ==
    WorkersAtRest /\ ProvInit /\ HashAtRest /\ BodyAtRest /\ BronzeAtRest /\ ScrapAtRest /\ NameAtRest

SpecProv == InitProv /\ [][ProvNext]_vars

\* Either worker hashes a payload and a reordering of it.
InitHash ==
    WorkersAtRest /\ ProvAtRest /\ HashInit /\ BodyAtRest /\ BronzeAtRest /\ ScrapAtRest /\ NameAtRest

SpecHash == InitHash /\ [][HashNext]_vars

\* The extraction worker normalises one parsed body.
InitBody ==
    WorkersAtRest /\ ProvAtRest /\ HashAtRest /\ BodyInit /\ BronzeAtRest /\ ScrapAtRest /\ NameAtRest

SpecBody == InitBody /\ [][BodyNext]_vars

\* One run of the bronze normaliser over a raw table.
InitBronze ==
    WorkersAtRest /\ ProvAtRest /\ HashAtRest /\ BodyAtRest /\ BronzeInit /\ ScrapAtRest /\ NameAtRest

SpecBronze == InitBronze /\ [][BronzeNext]_vars

\* Runs of the bronze normaliser over a raw table, one after the other.
SpecBronzeRuns == InitBronze /\ [][BronzeRunsNext]_vars

\* The provisioner names the tables of two tenants and the bronze
\* normaliser is run on each.
InitName ==
    WorkersAtRest /\ ProvAtRest /\ HashAtRest /\ BodyAtRest /\ BronzeAtRest
        /\ ScrapAtRest /\ NameInit

SpecName == InitName /\ [][NameNext]_vars

\* The operator submits jobs.
InitScrap ==
    WorkersAtRest /\ ProvAtRest /\ HashAtRest /\ BodyAtRest /\ BronzeAtRest /\ ScrapAtRest /\ NameAtRest

SpecScrap == InitScrap /\ [][ScrapNext]_vars

\* The operator saves two routes of one tenant, in any order.
InitRotas ==
    WorkersAtRest /\ RotasInit /\ HashAtRest /\ BodyAtRest /\ BronzeAtRest /\ ScrapAtRest /\ NameAtRest

SpecRotas == InitRotas /\ [][RotasNext]_vars

\* The steps of one executor thread.
FetchStep(t) ==
    \/ FetchStart(t) \/ CheckCompare(t) \/ CheckReset(t)
    \/ FetchCheckReturn(t) \/ AcquireLock(t) \/ WaitCheckReturn(t)
    \/ WaitInterval(t) \/ WaitIncRead(t) \/ WaitIncWrite(t) \/ FetchHttp(t)

\* The steps of the thread of run.
RunStep ==
    \/ DRunStart \/ DBatchHead \/ DSubmit \/ DCollect \/ DShutdown \/ DPush
    \/ DPushRetry \/ DAfter \/ DJoin \/ DJoinTimeout \/ DFinal

\* A run in which stop is never called.  The thread of run and the
\* threads of the executor are scheduled in the end whenever they can take
\* a step; nothing is asked of the writer thread.
SpecDetFair ==
    /\ InitDet
    /\ [][DetProgram]_vars
    /\ \A t \in Threads : WF_vars(FetchStep(t))
    /\ WF_vars(RunStep)

\* The steps of the thread of ETLWorker.run.
EtlRunStep ==
    \/ RunStart \/ RunCheckTable \/ RunLoopHead \/ RunRetryHead \/ RunHttp
    \/ RunPut \/ RunPutRetry \/ RunProgress \/ RunWaitWriter
    \/ RunJoin \/ RunJoinTimeout \/ RunFinal \/ RunExcept

\* The steps of the writer thread of the extraction worker.
EtlWriterStep == WriterLoop \/ WriterGet \/ WriterTimeout

\* The extraction worker with its two threads scheduled in the end
\* whenever they can take a step; nothing is asked of the operator, who may
\* or may not call stop or start a further job.
SpecFair ==
    /\ Init
    /\ [][Next]_vars
    /\ WF_vars(EtlRunStep)
    /\ WF_vars(EtlWriterStep)
====
